---- MODULE Spec2Model ----
(***************************************************************************)
(* Model of the nursing chatbot: keyword resolution (findMatchingEntryId), *)
(* the retrieval engine (getResponse and the knowledge repository behind   *)
(* it), the per-user dialog store, the webhook handlers, the worker's GET  *)
(* routes and configuration, the response service, the keyword-index       *)
(* generation of the upload tools, the concurrent fetches of a department  *)
(* listing, the signature check of the webhook and the listing messages    *)
(* with their buttons.                                                     *)
(*                                                                         *)
(* A JavaScript string is a sequence of one-character strings.  The value  *)
(* prefix 'Department:' is one symbol of that sequence.                    *)
(***************************************************************************)
EXTENDS Integers, Sequences, FiniteSets, TLC

VARIABLES
  keywordIndex,  \* the parsed index, its entries in insertion order
  query,         \* the query of the last call
  knowledgeId,   \* the value findMatchingEntryId returned
  kv,            \* config.kv.nursing_knowledge and what the namespace holds
  response,      \* what getResponse returned
  calls,         \* the store calls getResponse issued, in order
  userContexts,  \* the dialog contexts, by user id
  appended,      \* by user id, the entries appended since the context exists
  clock,         \* the time new Date() reads
  cleared,       \* by user id, what the last clearUserContext found
  events,        \* the events of the webhook request being handled
  pc,            \* by event, where its handler stands
  replies,       \* the replyMessage calls, in the order they were issued
  retrieved,     \* by event, what getResponse returned to handleText
  request,       \* the webhook request: its signature header and its body
  config,        \* the configuration module: its object and its export
  httpResponse,  \* the response of the worker to the last request
  lookups,       \* the getKnowledgeById calls made, in order
  upload,        \* the upload tool run and the files it read
  listing,       \* the department listing being fetched, or the one shown
  messages,      \* the reply messages generated for a listing
  pressed        \* the button of a listing the user pressed

resolveVars == <<keywordIndex, query, knowledgeId>>

retrievalVars == <<kv, response, calls>>

dialogVars == <<userContexts, appended, clock, cleared>>

webhookVars == <<events, pc, replies, retrieved, request>>

workerVars == <<config, httpResponse>>

repositoryVars == <<lookups>>

uploadVars == <<upload>>

listingVars == <<listing, messages, pressed>>

vars == <<keywordIndex, query, knowledgeId, kv, response, calls,
          userContexts, appended, clock, cleared,
          events, pc, replies, retrieved, request, config, httpResponse,
          lookups,
          upload, listing,
          messages, pressed>>

----------------------------------------------------------------------------
(* Bounds *)

MaxEntries == 2     \* entries of a keyword index
MaxKeyLen == 2      \* characters of a keyword
MaxQueryLen == 2    \* characters of a query
MaxStored == 2      \* entries of the keyword index held by the store
MaxAppends == 12    \* appends to the history of one user
MaxMixed == 1       \* appends, over all users, that are not user text
MaxClock == 2       \* readings of the clock after the first
MaxSessionAppends == 3  \* appends, over all users, while time passes
MaxEvents == 2      \* events of one webhook request
MaxReplyFailures == 2   \* replyMessage calls of one request that throw
MaxLookups == 3     \* calls of getKnowledgeById and writes of documents
MaxPieces == 3      \* phrases and loose characters of a chat input
MaxDocuments == 2   \* knowledge entries an upload tool reads
MaxKeywords == 2     \* keywords of a knowledge entry
MaxRequests == 2    \* webhook requests handled one after another

----------------------------------------------------------------------------
(* JavaScript strings *)

DEPT == "Department:"

KeyChars == {"a", "A", "1"}
QueryChars == {"a", "A", "1", " "}

\* values that are not strings (a number, null, an object) have no methods
NotAString == <<"<number>">>
IsString(v) == v # NotAString

\* the outcomes of a call besides a string
Null == <<"<null>">>
TypeError == <<"<TypeError>">>

Strings(chars, n) == UNION {[1..k -> chars] : k \in 0..n}

LowerChar(c) == CASE c = "A" -> "a" [] c = "B" -> "b" [] OTHER -> c

toLowerCase(s) == [i \in 1..Len(s) |-> LowerChar(s[i])]

UpperChar(c) == CASE c = "a" -> "A" [] c = "b" -> "B" [] c = "x" -> "X" [] OTHER -> c

toUpperCase(s) == [i \in 1..Len(s) |-> UpperChar(s[i])]

NL == "<LF>"

\* the white space String.prototype.trim removes and \\s matches
IsSpace(c) == c \in {" ", NL}

RECURSIVE trimStart(_)
trimStart(s) == IF s # <<>> /\ IsSpace(Head(s)) THEN trimStart(Tail(s)) ELSE s

RECURSIVE trimEnd(_)
trimEnd(s) ==
  IF s # <<>> /\ IsSpace(s[Len(s)]) THEN trimEnd(SubSeq(s, 1, Len(s) - 1)) ELSE s

\* mutant: only the leading white space is removed
trim_start(s) == trimStart(s)

trim(s) == trimEnd(trimStart(s))

startsWith(s, p) == Len(p) <= Len(s) /\ SubSeq(s, 1, Len(p)) = p

includes(s, t) ==
  \E i \in 0..(Len(s) - Len(t)) : SubSeq(s, i + 1, i + Len(t)) = t

\* s.replace(p, ''): the first occurrence of p removed
replaceFirst(s, p) ==
  IF includes(s, p)
  THEN LET i == CHOOSE j \in 0..(Len(s) - Len(p)) :
                   /\ SubSeq(s, j + 1, j + Len(p)) = p
                   /\ \A h \in 0..(j - 1) : SubSeq(s, h + 1, h + Len(p)) # p
       IN SubSeq(s, 1, i) \o SubSeq(s, i + Len(p) + 1, Len(s))
  ELSE s

----------------------------------------------------------------------------
(* Object.entries: property enumeration order of a JavaScript object *)

Digits == {"0", "1", "2", "3", "4", "5", "6", "7", "8", "9"}

DigitVal(c) ==
  CASE c = "0" -> 0 [] c = "1" -> 1 [] c = "2" -> 2 [] c = "3" -> 3
    [] c = "4" -> 4 [] c = "5" -> 5 [] c = "6" -> 6 [] c = "7" -> 7
    [] c = "8" -> 8 [] c = "9" -> 9

\* a canonical array index: decimal digits without a leading zero
IsArrayIndex(k) ==
  /\ Len(k) >= 1
  /\ Len(k) <= 9
  /\ \A i \in 1..Len(k) : k[i] \in Digits
  /\ (k[1] = "0" => Len(k) = 1)

RECURSIVE NumVal(_)
NumVal(k) == IF k = <<>> THEN 0 ELSE 10 * NumVal(SubSeq(k, 1, Len(k) - 1)) + DigitVal(k[Len(k)])

RECURSIVE InsertByIndex(_, _)
InsertByIndex(e, sorted) ==
  IF sorted = <<>> THEN <<e>>
  ELSE IF NumVal(e.key) < NumVal(Head(sorted).key) THEN <<e>> \o sorted
  ELSE <<Head(sorted)>> \o InsertByIndex(e, Tail(sorted))

RECURSIVE SortByIndex(_)
SortByIndex(es) ==
  IF es = <<>> THEN <<>> ELSE InsertByIndex(Head(es), SortByIndex(Tail(es)))

IsIndexEntry(e) == IsArrayIndex(e.key)
IsNamedEntry(e) == ~IsArrayIndex(e.key)

\* mutant: plain insertion order
ObjectEntries_inserted(obj) == obj

\* integer-like keys in ascending numeric order, then the others as inserted
ObjectEntries(obj) ==
  SortByIndex(SelectSeq(obj, IsIndexEntry)) \o SelectSeq(obj, IsNamedEntry)

----------------------------------------------------------------------------
(* findMatchingEntryId *)

isDepartmentMarker(v) == startsWith(v, <<DEPT>>)

\* mutant: the department is matched by containment instead of equality
RECURSIVE FindDepartmentMatch_contained(_, _, _)
FindDepartmentMatch_contained(entries, lowerQuery, i) ==
  IF i > Len(entries) THEN Null
  ELSE IF includes(lowerQuery, toLowerCase(entries[i].key))
       THEN IF ~IsString(entries[i].value) THEN TypeError
            ELSE IF isDepartmentMarker(entries[i].value) THEN entries[i].value
            ELSE FindDepartmentMatch_contained(entries, lowerQuery, i + 1)
       ELSE FindDepartmentMatch_contained(entries, lowerQuery, i + 1)

\* Array.prototype.find with the department predicate, from entry i on
RECURSIVE FindDepartmentMatch(_, _, _)
FindDepartmentMatch(entries, lowerQuery, i) ==
  IF i > Len(entries) THEN Null
  ELSE IF toLowerCase(entries[i].key) = lowerQuery
       THEN IF ~IsString(entries[i].value) THEN TypeError
            ELSE IF isDepartmentMarker(entries[i].value) THEN entries[i].value
            ELSE FindDepartmentMatch(entries, lowerQuery, i + 1)
       ELSE FindDepartmentMatch(entries, lowerQuery, i + 1)

\* mutant: the keyword is tested for containing the query
RECURSIVE ScanKeywords_reversed(_, _, _)
ScanKeywords_reversed(entries, lowerQuery, i) ==
  IF i > Len(entries) THEN Null
  ELSE IF ~IsString(entries[i].value) THEN TypeError
  ELSE IF isDepartmentMarker(entries[i].value)
       THEN ScanKeywords_reversed(entries, lowerQuery, i + 1)
  ELSE IF includes(toLowerCase(entries[i].key), lowerQuery)
       THEN entries[i].value
  ELSE ScanKeywords_reversed(entries, lowerQuery, i + 1)

\* the for-of loop over the entries, from entry i on
RECURSIVE ScanKeywords(_, _, _)
ScanKeywords(entries, lowerQuery, i) ==
  IF i > Len(entries) THEN Null
  ELSE IF ~IsString(entries[i].value) THEN TypeError
  ELSE IF isDepartmentMarker(entries[i].value)
       THEN ScanKeywords(entries, lowerQuery, i + 1)
  ELSE IF includes(lowerQuery, toLowerCase(entries[i].key))
       THEN entries[i].value
  ELSE ScanKeywords(entries, lowerQuery, i + 1)

\* mutant: the keyword scan runs before the department check
findMatchingEntryId_scanFirst(q, index) ==
  LET lowerQuery == trim(toLowerCase(q))
      entries == ObjectEntries(index)
      scanned == ScanKeywords(entries, lowerQuery, 1)
  IN IF scanned # Null
     THEN scanned
     ELSE FindDepartmentMatch(entries, lowerQuery, 1)

findMatchingEntryId(q, index) ==
  LET lowerQuery == trim(toLowerCase(q))
      entries == ObjectEntries(index)
      departmentMatch == FindDepartmentMatch(entries, lowerQuery, 1)
  IN IF departmentMatch # Null
     THEN departmentMatch
     ELSE ScanKeywords(entries, lowerQuery, 1)

----------------------------------------------------------------------------
(* Resolution: the inputs of findMatchingEntryId *)

Keys == Strings(KeyChars, MaxKeyLen)
Queries == Strings(QueryChars, MaxQueryLen)

DocX == <<"a", "-", "x">>
DocY == <<"a", "-", "y">>
MarkerA == <<DEPT, "a">>
MarkerB == <<DEPT, "b">>

IndexValues == {DocX, DocY, MarkerA, MarkerB}

\* a parsed JSON object: distinct keys, in the order of the JSON text
Indexes(keys, values, n) ==
  {ix \in UNION {[1..k -> [key : keys, value : values]] : k \in 0..n} :
     \A i, j \in 1..Len(ix) : i # j => ix[i].key # ix[j].key}

NotCalled == <<"<not called>">>

NoStore == [bound |-> FALSE, index |-> [state |-> "absent"], docs |-> <<>>]

Users == {"U1", "U2"}
NoContext == [exists |-> FALSE]

\* const userContexts = new Map()
NoDialog ==
  /\ userContexts = [u \in Users |-> NoContext]
  /\ appended = [u \in Users |-> <<>>]
  /\ clock = 0
  /\ cleared = [u \in Users |-> "never"]

\* no webhook request is being handled
NoRequest == [state |-> "none"]

NoWebhook ==
  /\ events = <<>>
  /\ pc = <<>>
  /\ replies = <<>>
  /\ retrieved = <<>>
  /\ request = NoRequest

\* the configuration module as loaded where no global ENVIRONMENT is
\* defined, and no request answered yet
Loaded(environment) ==
  [inner |-> environment, exported |-> environment]

NoWorker ==
  /\ config = Loaded("development")
  /\ httpResponse = [status |-> 0]

NoLookups == lookups = <<>>

NoUpload == upload = [tool |-> "none", written |-> FALSE]

\* no department listing is being fetched
NotPressed == [group |-> 0, action |-> 0]

NoListing ==
  /\ listing = [phase |-> "idle"]
  /\ messages = <<>>
  /\ pressed = NotPressed

InitResolve ==
  /\ keywordIndex \in Indexes(Keys, IndexValues, MaxEntries)
  /\ query = <<>>
  /\ knowledgeId = NotCalled
  /\ kv = NoStore
  /\ response = [kind |-> "not called"]
  /\ calls = <<>>
  /\ NoDialog
  /\ NoWebhook
  /\ NoWorker
  /\ NoLookups
  /\ NoUpload
  /\ NoListing

Resolve(q) ==
  /\ knowledgeId = NotCalled
  /\ query' = q
  /\ knowledgeId' = findMatchingEntryId(q, keywordIndex)
  /\ UNCHANGED <<keywordIndex, retrievalVars, dialogVars, webhookVars,
               workerVars, repositoryVars, uploadVars,
               listingVars>>

NextResolve == \E q \in Queries : Resolve(q)

SpecResolve == InitResolve /\ [][NextResolve]_vars

----------------------------------------------------------------------------
(* Resolution: properties *)

Called == knowledgeId # NotCalled

normalizedQuery == trim(toLowerCase(query))

\* entries whose value is a department marker and whose key equals the query
DepartmentHits ==
  {i \in 1..Len(keywordIndex) :
     /\ isDepartmentMarker(keywordIndex[i].value)
     /\ toLowerCase(keywordIndex[i].key) = normalizedQuery}

\* entries of ordinary keywords contained in the query
KeywordHits ==
  {i \in 1..Len(keywordIndex) :
     /\ ~isDepartmentMarker(keywordIndex[i].value)
     /\ includes(normalizedQuery, toLowerCase(keywordIndex[i].key))}

Minimum(S) == CHOOSE i \in S : \A j \in S : i <= j

\* entry i is enumerated before entry j
EnumeratedBefore(i, j) ==
  LET ki == keywordIndex[i].key
      kj == keywordIndex[j].key
  IN IF IsArrayIndex(ki)
     THEN IsArrayIndex(kj) => NumVal(ki) < NumVal(kj)
     ELSE ~IsArrayIndex(kj) /\ i < j

\* C1 (as stated): a query equal to a department key k with value
\* 'Department:c' resolves to 'Department:c', for every such key k.
C1_AnyDepartmentKey ==
  Called => \A i \in DepartmentHits : knowledgeId = keywordIndex[i].value

\* C1 (amended): a query equal to department keys resolves to the marker of
\* the first inserted of them, whatever ordinary keywords the query contains.
C1_FirstDepartmentKey ==
  (Called /\ DepartmentHits # {}) =>
     knowledgeId = keywordIndex[Minimum(DepartmentHits)].value

C1_Witness ==
  /\ Called
  /\ DepartmentHits # {}
  /\ KeywordHits # {}
  /\ Minimum(KeywordHits) < Minimum(DepartmentHits)
  /\ knowledgeId = keywordIndex[Minimum(DepartmentHits)].value

\* C2: without a department hit, a query containing ordinary keywords
\* resolves to the (non-null) value of one of the keywords it contains.
C2_SomeKeywordHit ==
  (Called /\ DepartmentHits = {} /\ KeywordHits # {}) =>
     /\ knowledgeId # Null
     /\ \E i \in KeywordHits : knowledgeId = keywordIndex[i].value

C2_Witness ==
  /\ Called
  /\ DepartmentHits = {}
  /\ KeywordHits # {}
  /\ \E i \in 1..Len(keywordIndex) :
        /\ isDepartmentMarker(keywordIndex[i].value)
        /\ keywordIndex[i].key # <<>>
        /\ includes(normalizedQuery, toLowerCase(keywordIndex[i].key))
  /\ knowledgeId = keywordIndex[Minimum(KeywordHits)].value

\* C3 (as stated): among several contained keywords the first inserted wins.
C3_FirstInserted ==
  (Called /\ DepartmentHits = {} /\ KeywordHits # {}) =>
     knowledgeId = keywordIndex[Minimum(KeywordHits)].value

\* C3 (amended): among several contained keywords the first enumerated wins:
\* integer-like keys in ascending numeric order, then the others as inserted.
C3_FirstEnumerated ==
  (Called /\ DepartmentHits = {} /\ KeywordHits # {}) =>
     \E i \in KeywordHits :
        /\ \A j \in KeywordHits \ {i} : EnumeratedBefore(i, j)
        /\ knowledgeId = keywordIndex[i].value

C3_Witness ==
  /\ Called
  /\ DepartmentHits = {}
  /\ Cardinality(KeywordHits) = 2
  /\ \E i, j \in KeywordHits :
        /\ i < j
        /\ keywordIndex[i].value # keywordIndex[j].value
        /\ EnumeratedBefore(j, i)
        /\ knowledgeId = keywordIndex[j].value

\* C4: the result is null exactly when no department key equals the query
\* and no ordinary keyword is contained in it.
C4_NullIffNoHit ==
  Called => (knowledgeId = Null <=> (DepartmentHits = {} /\ KeywordHits = {}))

C4_Witness ==
  /\ Called
  /\ knowledgeId = Null
  /\ \E i, j \in 1..Len(keywordIndex) :
        /\ isDepartmentMarker(keywordIndex[i].value)
        /\ includes(normalizedQuery, toLowerCase(keywordIndex[i].key))
        /\ toLowerCase(keywordIndex[i].key) # normalizedQuery
        /\ ~isDepartmentMarker(keywordIndex[j].value)
        /\ includes(toLowerCase(keywordIndex[j].key), normalizedQuery)
        /\ toLowerCase(keywordIndex[j].key) # normalizedQuery

----------------------------------------------------------------------------
(* Knowledge repository: the documents of the store *)

KNOWLEDGE == "knowledge:"
Untitled == <<"<untitled entry>">>
NoDescription == <<"<no description>">>
Ellipsis == <<".", ".", ".">>
DescriptionLimit == 50

RECURSIVE SpaceRunEnd(_, _)
\* the last position of the white space run that starts at p (p - 1: none)
SpaceRunEnd(t, p) ==
  IF p <= Len(t) /\ IsSpace(t[p]) THEN SpaceRunEnd(t, p + 1) ELSE p - 1

RECURSIVE LineEnd(_, _)
\* the last position of the line that holds position p
LineEnd(t, p) ==
  IF p < Len(t) /\ t[p + 1] # NL THEN LineEnd(t, p + 1) ELSE p

\* /^#\s+(.+)$/m tried at position p: the captured group, or Null
TitleMatchAt(t, p) ==
  IF ~(t[p] = "#" /\ (p = 1 \/ t[p - 1] = NL)) THEN Null
  ELSE LET e == SpaceRunEnd(t, p + 1)
       IN IF e < p + 1 THEN Null
          ELSE IF e < Len(t) THEN SubSeq(t, e + 1, LineEnd(t, e + 1))
          ELSE IF \E j \in (p + 2)..e : t[j] # NL
               THEN LET j == CHOOSE h \in (p + 2)..e :
                                 t[h] # NL /\ \A g \in (h + 1)..e : t[g] = NL
                    IN SubSeq(t, j, j)
          ELSE Null

extractTitle(text) ==
  LET hits == {p \in 1..Len(text) : TitleMatchAt(text, p) # Null}
  IN IF hits = {} THEN Untitled
     ELSE trim(TitleMatchAt(text, CHOOSE p \in hits : \A h \in hits : p <= h))

RECURSIVE SplitParagraphs(_)
\* text.split('\n\n')
SplitParagraphs(t) ==
  LET cuts == {p \in 1..(Len(t) - 1) : t[p] = NL /\ t[p + 1] = NL}
  IN IF cuts = {} THEN <<t>>
     ELSE LET c == CHOOSE p \in cuts : \A h \in cuts : p <= h
          IN <<SubSeq(t, 1, c - 1)>> \o SplitParagraphs(SubSeq(t, c + 2, Len(t)))

extractDescription(text) ==
  LET paragraphs == SplitParagraphs(text)
      usable == {i \in 1..Len(paragraphs) :
                   /\ ~startsWith(paragraphs[i], <<"#">>)
                   /\ Len(trim(paragraphs[i])) > 0}
      description ==
        IF usable = {} THEN <<>>
        ELSE trim(paragraphs[CHOOSE i \in usable : \A h \in usable : i <= h])
      cut == IF Len(description) > DescriptionLimit
             THEN SubSeq(description, 1, DescriptionLimit) \o Ellipsis
             ELSE description
  IN IF cut = <<>> THEN NoDescription ELSE cut

\* a thrown store call is caught and logged: the call fails soft
StoreGet(key, failed) == [op |-> "get", key |-> key, failed |-> failed]
StoreList(prefix, failed) == [op |-> "list", key |-> prefix, failed |-> failed]

StoredDoc(store, id) ==
  IF id \in DOMAIN store.docs THEN store.docs[id] ELSE [state |-> "absent"]

getKeywordIndex(store, faults) ==
  IF ~store.bound THEN [found |-> FALSE, calls |-> <<>>]
  ELSE LET call == StoreGet(<<"keyword-index">>, faults.index)
       IN IF faults.index \/ store.index.state # "stored"
          THEN [found |-> FALSE, calls |-> <<call>>]
          ELSE [found |-> TRUE, value |-> store.index.value, calls |-> <<call>>]

getKnowledgeById(store, faults, id) ==
  IF ~store.bound THEN [found |-> FALSE, calls |-> <<>>]
  ELSE LET call == StoreGet(<<KNOWLEDGE>> \o id, id \in faults.docs)
           doc == StoredDoc(store, id)
       IN IF id \in faults.docs \/ doc.state # "stored"
          THEN [found |-> FALSE, calls |-> <<call>>]
          ELSE [found |-> TRUE, value |-> doc.value, calls |-> <<call>>]

DocB == <<"b", "-", "x">>

\* every document id of the model, in the key order of a namespace listing
DocIdOrder == <<DocX, DocY, DocB>>
DocIds == {DocIdOrder[i] : i \in 1..Len(DocIdOrder)}

getAllKnowledgeIds(store, faults) ==
  IF ~store.bound THEN [value |-> <<>>, calls |-> <<>>]
  ELSE LET call == StoreList(<<KNOWLEDGE>>, faults.list)
           IsKey(id) == StoredDoc(store, id).state # "absent"
           names == [i \in 1..Len(SelectSeq(DocIdOrder, IsKey)) |->
                       <<KNOWLEDGE>> \o SelectSeq(DocIdOrder, IsKey)[i]]
       IN IF faults.list
          THEN [value |-> <<>>, calls |-> <<call>>]
          ELSE [value |-> [i \in 1..Len(names) |->
                             replaceFirst(names[i], <<KNOWLEDGE>>)],
                calls |-> <<call>>]

RECURSIVE Flatten(_)
Flatten(ss) == IF ss = <<>> THEN <<>> ELSE Head(ss) \o Flatten(Tail(ss))

HasText(entry) == "text" \in DOMAIN entry

Summary(entry) ==
  [id |-> entry.id,
   title |-> extractTitle(entry.text),
   description |-> extractDescription(entry.text)]

getDepartmentEntries(store, faults, department) ==
  LET normalizedDepartment == toLowerCase(trim(department))
      allIds == getAllKnowledgeIds(store, faults)
      InDepartment(id) == startsWith(id, normalizedDepartment \o <<"-">>)
      departmentIds == SelectSeq(allIds.value, InDepartment)
      \* every callback of the map runs up to its store get
      fetched == [i \in 1..Len(departmentIds) |->
                    getKnowledgeById(store, faults, departmentIds[i])]
      issued == allIds.calls \o
                Flatten([i \in 1..Len(fetched) |-> fetched[i].calls])
      Usable(r) == r.found
      found == SelectSeq(fetched, Usable)
  IN IF \E i \in 1..Len(found) : ~HasText(found[i].value)
     \* entry.text.match throws, Promise.all rejects, the catch returns []
     THEN [value |-> <<>>, calls |-> issued]
     ELSE [value |-> [i \in 1..Len(found) |-> Summary(found[i].value)],
           calls |-> issued]

----------------------------------------------------------------------------
(* Retrieval engine: getResponse *)

ResNull == [kind |-> "null"]
Raised == [kind |-> "raised"]
Thrown == [kind |-> "thrown"]

Document(entry) == [kind |-> "document", document |-> entry]

Listing(department, entries) ==
  [kind |-> "listing", isDepartmentListing |-> TRUE,
   department |-> department, entries |-> entries]

\* mutant: without an index the stored documents are enumerated
OnIndexMissing_scan(store, faults, q, loaded) ==
  [result |-> ResNull, id |-> NotCalled,
   calls |-> loaded.calls \o getAllKnowledgeIds(store, faults).calls]

\* if (!keywordIndex) return null
OnIndexMissing(store, faults, q, loaded) ==
  [result |-> ResNull, id |-> NotCalled, calls |-> loaded.calls]

\* mutant: an empty department is reported as a miss
OnDepartment_emptyIsMiss(store, faults, id, loaded) ==
  LET department == replaceFirst(id, <<DEPT>>)
      departmentEntries == getDepartmentEntries(store, faults, department)
  IN [result |-> IF Len(departmentEntries.value) > 0
                 THEN Listing(department, departmentEntries.value)
                 ELSE ResNull,
      id |-> id,
      calls |-> loaded.calls \o departmentEntries.calls]

\* if (knowledgeId.startsWith('Department:')): both branches return a listing
OnDepartment(store, faults, id, loaded) ==
  LET department == replaceFirst(id, <<DEPT>>)
      departmentEntries == getDepartmentEntries(store, faults, department)
  IN [result |-> IF Len(departmentEntries.value) > 0
                 THEN Listing(department, departmentEntries.value)
                 ELSE Listing(department, <<>>),
      id |-> id,
      calls |-> loaded.calls \o departmentEntries.calls]

\* mutant: the document is reduced to its listing summary
OnDocument_summary(store, faults, id, loaded) ==
  LET knowledgeEntry == getKnowledgeById(store, faults, id)
  IN [result |-> IF knowledgeEntry.found /\ HasText(knowledgeEntry.value)
                 THEN Document(Summary(knowledgeEntry.value))
                 ELSE ResNull,
      id |-> id,
      calls |-> loaded.calls \o knowledgeEntry.calls]

\* the document of the resolved id, or null
OnDocument(store, faults, id, loaded) ==
  LET knowledgeEntry == getKnowledgeById(store, faults, id)
  IN [result |-> IF knowledgeEntry.found
                 THEN Document(knowledgeEntry.value)
                 ELSE ResNull,
      id |-> id,
      calls |-> loaded.calls \o knowledgeEntry.calls]

\* the statements of the try block; Thrown: control passes to the catch
getResponseTry(store, faults, q) ==
  LET loaded == getKeywordIndex(store, faults)
  IN IF ~loaded.found
     THEN OnIndexMissing(store, faults, q, loaded)
     ELSE
       LET id == findMatchingEntryId(q, loaded.value)
       IN IF id = TypeError
          THEN [result |-> Thrown, id |-> id, calls |-> loaded.calls]
          ELSE IF id = Null \/ id = <<>>
          THEN [result |-> ResNull, id |-> id, calls |-> loaded.calls]
          ELSE IF isDepartmentMarker(id)
          THEN OnDepartment(store, faults, id, loaded)
          ELSE OnDocument(store, faults, id, loaded)

\* mutant: no catch around the body
getResponse_uncaught(store, faults, q) ==
  LET body == getResponseTry(store, faults, q)
  IN IF body.result = Thrown
     THEN [result |-> Raised, id |-> body.id, calls |-> body.calls]
     ELSE body

getResponse(store, faults, q) ==
  LET body == getResponseTry(store, faults, q)
  IN IF body.result = Thrown
     THEN [result |-> ResNull, id |-> body.id, calls |-> body.calls]
     ELSE body

----------------------------------------------------------------------------
(* Retrieval: the stores and queries getResponse is run on *)

TextTitled == <<"#", " ", "t", NL, NL, "d">>

GoodDoc(id) == [id |-> id, text |-> TextTitled]
NoTextDoc(id) == [id |-> id]

Absent == [state |-> "absent"]
Malformed == [state |-> "malformed"]
Stored(v) == [state |-> "stored", value |-> v]

DocStates(id) ==
  IF id = DocX THEN {Absent, Malformed, Stored(GoodDoc(id)), Stored(NoTextDoc(id))}
  ELSE IF id = DocY THEN {Absent, Stored(GoodDoc(id)), Stored(NoTextDoc(id))}
  ELSE {Absent, Stored(GoodDoc(id))}

MarkerUpperA == <<DEPT, "A">>

StoredKeys == {<<"a">>, <<"b">>, <<"a", "b">>}
StoredValues == {DocX, DocB, MarkerA, MarkerUpperA, NotAString}
StoredQueries == {<<"a">>, <<"b">>, <<" ", "A">>, <<"a", "b">>}

IndexStates ==
  {Absent, Malformed} \cup
  {Stored(ix) : ix \in Indexes(StoredKeys, StoredValues, MaxStored)}

Faults == [index : BOOLEAN, list : BOOLEAN, docs : SUBSET DocIds]

InitRetrieval ==
  /\ kv \in {NoStore} \cup
            {[bound |-> TRUE, index |-> ix, docs |-> ds] :
               ix \in IndexStates,
               ds \in {d \in [DocIds -> UNION {DocStates(id) : id \in DocIds}] :
                         \A id \in DocIds : d[id] \in DocStates(id)}}
  /\ keywordIndex = <<>>
  /\ query = <<>>
  /\ knowledgeId = NotCalled
  /\ response = [kind |-> "not called"]
  /\ calls = <<>>
  /\ NoDialog
  /\ NoWebhook
  /\ NoWorker
  /\ NoLookups
  /\ NoUpload
  /\ NoListing

GetResponse(q, faults) ==
  /\ response.kind = "not called"
  /\ LET r == getResponse(kv, faults, q)
         loaded == getKeywordIndex(kv, faults)
     IN /\ response' = r.result
        /\ knowledgeId' = r.id
        /\ calls' = r.calls
        /\ keywordIndex' = IF loaded.found THEN loaded.value ELSE <<>>
  /\ query' = q
  /\ UNCHANGED <<kv, dialogVars, webhookVars, workerVars, repositoryVars,
               uploadVars,
               listingVars>>

NextRetrieval == \E q \in StoredQueries, faults \in Faults : GetResponse(q, faults)

SpecRetrieval == InitRetrieval /\ [][NextRetrieval]_vars

----------------------------------------------------------------------------
(* Retrieval: properties *)

Responded == response.kind # "not called"

FailedCalls == {i \in 1..Len(calls) : calls[i].failed}
ListCalls == {i \in 1..Len(calls) : calls[i].op = "list"}
DocumentGets ==
  {i \in 1..Len(calls) : calls[i].op = "get" /\ startsWith(calls[i].key, <<KNOWLEDGE>>)}

ResolvedDepartment ==
  knowledgeId \notin {NotCalled, Null, TypeError} /\ isDepartmentMarker(knowledgeId)

ResolvedDocument ==
  /\ knowledgeId \notin {NotCalled, Null, TypeError, <<>>}
  /\ ~isDepartmentMarker(knowledgeId)

\* the ids under which the store holds a value
StoredIds == {id \in DOMAIN kv.docs : kv.docs[id].state # "absent"}

\* C5: getResponse completes with null, a document or a department listing;
\* it never raises, whatever the store does and whatever the index holds.
C5_NeverRaises ==
  Responded => response.kind \in {"null", "document", "listing"}

C5_Witness ==
  /\ Responded
  /\ knowledgeId = TypeError
  /\ response = ResNull
  /\ \E i \in 1..Len(keywordIndex) : ~IsString(keywordIndex[i].value)

\* C6 (as stated): a failed store call makes the result of the call null.
C6_FailureIsMiss ==
  (Responded /\ FailedCalls # {}) => response = ResNull

\* C7 (as stated): a query resolved to 'Department:c' yields a listing of c,
\* never null, with no entries when no stored id begins with 'c-'.
C7_ListingByCode ==
  (Responded /\ ResolvedDepartment) =>
     /\ response # ResNull
     /\ response.kind = "listing"
     /\ response.isDepartmentListing
     /\ response.department = Tail(knowledgeId)
     /\ (\A id \in StoredIds : ~startsWith(id, Tail(knowledgeId) \o <<"-">>))
           => response.entries = <<>>

\* C7 (amended): a query resolved to 'Department:c' yields a listing of c,
\* never null, with no entries when no stored id begins with the trimmed,
\* lowercased c followed by '-'.
C7_ListingByNormalizedCode ==
  (Responded /\ ResolvedDepartment) =>
     /\ response # ResNull
     /\ response.kind = "listing"
     /\ response.isDepartmentListing
     /\ response.department = Tail(knowledgeId)
     /\ (\A id \in StoredIds :
            ~startsWith(id, toLowerCase(trim(Tail(knowledgeId))) \o <<"-">>))
           => response.entries = <<>>

C7_Witness ==
  /\ Responded
  /\ ResolvedDepartment
  /\ StoredIds # {}
  /\ \A id \in StoredIds :
        ~startsWith(id, toLowerCase(trim(Tail(knowledgeId))) \o <<"-">>)
  /\ FailedCalls = {}
  /\ response = Listing(Tail(knowledgeId), <<>>)

\* C8: without a store binding, or with the index absent or unparseable,
\* getResponse returns null and issues neither a document get nor a list.
C8_NoIndexNoLookup ==
  (Responded /\ (~kv.bound \/ kv.index.state \in {"absent", "malformed"})) =>
     /\ response = ResNull
     /\ DocumentGets = {}
     /\ ListCalls = {}

C8_Witness ==
  /\ Responded
  /\ kv.bound
  /\ kv.index.state = "malformed"
  /\ StoredIds # {}
  /\ FailedCalls = {}
  /\ Len(calls) = 1
  /\ response = ResNull

\* C9: a query resolved to a document id yields exactly the stored record
\* when its get succeeds and the value parses, and null otherwise; only that
\* one document is fetched.
C9_DocumentOrMiss ==
  (Responded /\ ResolvedDocument) =>
     /\ \A i \in DocumentGets : calls[i].key = <<KNOWLEDGE>> \o knowledgeId
     /\ Cardinality(DocumentGets) = 1
     /\ ListCalls = {}
     /\ IF StoredDoc(kv, knowledgeId).state = "stored" /\ DocumentGets \cap FailedCalls = {}
        THEN response = Document(StoredDoc(kv, knowledgeId).value)
        ELSE response = ResNull

C9_Witness ==
  /\ Responded
  /\ ResolvedDocument
  /\ StoredDoc(kv, knowledgeId).state # "stored"
  /\ response = ResNull
  /\ \E i \in 1..Len(keywordIndex) :
        /\ IsString(keywordIndex[i].value)
        /\ ~isDepartmentMarker(keywordIndex[i].value)
        /\ keywordIndex[i].value # knowledgeId
        /\ includes(trim(toLowerCase(query)), toLowerCase(keywordIndex[i].key))
        /\ StoredDoc(kv, keywordIndex[i].value).state = "stored"

----------------------------------------------------------------------------
(* Dialog store: the per-user history.  The record functions hold no await *)
(* before they change the history, so each is one step; the steps of       *)
(* concurrently handled events interleave in any order.  An entry's own    *)
(* timestamp is not part of the state; lastInteraction is.                 *)

MAX_DIALOG_HISTORY == 10

\* the context of the user after getUserContext: created when missing, and
\* its lastInteraction set to the time of the call
getUserContext(contexts, userId, now) ==
  IF contexts[userId].exists
  THEN [contexts[userId] EXCEPT !.lastInteraction = now]
  ELSE [exists |-> TRUE, history |-> <<>>, lastInteraction |-> now]

\* mutant: the newest entry is dropped instead of the oldest
PushBounded_pop(history, entry) ==
  LET pushed == Append(history, entry)
  IN IF Len(pushed) > MAX_DIALOG_HISTORY
     THEN SubSeq(pushed, 1, Len(pushed) - 1)
     ELSE pushed

\* history.push(entry); if (history.length > MAX_DIALOG_HISTORY) history.shift()
PushBounded(history, entry) ==
  LET pushed == Append(history, entry)
  IN IF Len(pushed) > MAX_DIALOG_HISTORY THEN Tail(pushed) ELSE pushed

\* mutant: one context is shared by all users
Record_shared(userId, entry) ==
  /\ userContexts' =
       [u \in Users |->
          LET context == getUserContext(userContexts, u, clock)
          IN [context EXCEPT !.history = PushBounded(context.history, entry)]]
  /\ appended' = [appended EXCEPT ![userId] = Append(@, entry)]

Record(userId, entry) ==
  LET context == getUserContext(userContexts, userId, clock)
  IN /\ userContexts' =
          [userContexts EXCEPT ![userId] =
             [context EXCEPT !.history = PushBounded(context.history, entry)]]
     /\ appended' = [appended EXCEPT ![userId] = Append(@, entry)]

\* the texts, media ids and message objects the handlers pass in: the k-th
\* append of a user carries the k-th of them
Text(k) == <<"text", k>>
MessageObject(k) == <<"object", k>>

\* JSON.stringify of a message object or array
Stringify(message) == <<"json", message[2]>>

IsStringMessage(message) == message[1] = "text"

ImagePlaceholder(imageId) == <<"[image]", imageId>>
VideoPlaceholder(videoId) == <<"[video]", videoId>>

Serial(userId) == Len(appended[userId]) + 1

Mixed(userId) ==
  Len(SelectSeq(appended[userId],
                LAMBDA e : ~(e.role = "user" /\ e.content[1] = "text")))

MayAppend(userId) == Len(appended[userId]) < MaxAppends

MayMix == Mixed("U1") + Mixed("U2") < MaxMixed

recordUserMessage(userId, message) ==
  Record(userId, [role |-> "user", content |-> message])

recordUserImage(userId, imageId) ==
  Record(userId, [role |-> "user", content |-> ImagePlaceholder(imageId)])

recordUserVideo(userId, videoId) ==
  Record(userId, [role |-> "user", content |-> VideoPlaceholder(videoId)])

recordBotMessage(userId, message) ==
  Record(userId,
         [role |-> "bot",
          content |-> IF IsStringMessage(message) THEN message
                      ELSE Stringify(message)])

\* what getDialogHistory returns: the history of the context it got
DialogHistory(contexts, userId, now) ==
  getUserContext(contexts, userId, now).history

getDialogHistory(userId) ==
  /\ userContexts' =
       [userContexts EXCEPT ![userId] =
          getUserContext(userContexts, userId, clock)]
  /\ UNCHANGED appended

\* mutant: the context is kept
clearUserContext_kept(userId) ==
  /\ userContexts' = userContexts
  /\ appended' = [appended EXCEPT ![userId] = <<>>]

clearUserContext(userId) ==
  /\ userContexts' = [userContexts EXCEPT ![userId] = NoContext]
  /\ appended' = [appended EXCEPT ![userId] = <<>>]

InitDialog ==
  /\ NoDialog
  /\ NoWebhook
  /\ NoWorker
  /\ NoLookups
  /\ NoUpload
  /\ NoListing
  /\ keywordIndex = <<>>
  /\ query = <<>>
  /\ knowledgeId = NotCalled
  /\ kv = NoStore
  /\ response = [kind |-> "not called"]
  /\ calls = <<>>

\* the operations of the dialog store within one reading of the clock
NextDialog ==
  /\ UNCHANGED <<resolveVars, retrievalVars, clock, cleared, webhookVars,
               workerVars, repositoryVars, uploadVars,
               listingVars>>
  /\ \E u \in Users :
        \/ MayAppend(u) /\ recordUserMessage(u, Text(Serial(u)))
        \/ MayAppend(u) /\ MayMix /\ recordUserImage(u, Serial(u))
        \/ MayAppend(u) /\ MayMix /\ recordUserVideo(u, Serial(u))
        \/ MayAppend(u) /\ MayMix /\ recordBotMessage(u, Text(Serial(u)))
        \/ MayAppend(u) /\ MayMix /\ recordBotMessage(u, MessageObject(Serial(u)))
        \/ getDialogHistory(u)
        \/ clearUserContext(u)

SpecDialog == InitDialog /\ [][NextDialog]_vars

----------------------------------------------------------------------------
(* Sessions: the dialog store while time passes, with what each            *)
(* clearUserContext found kept on the side.                                *)

\* new Date() reads a later time
Tick ==
  /\ clock < MaxClock
  /\ clock' = clock + 1
  /\ UNCHANGED <<userContexts, appended, cleared>>

MaySession ==
  Len(appended["U1"]) + Len(appended["U2"]) < MaxSessionAppends

\* an operation of the dialog store on the session of one user
SessionOp(u) ==
  \/ MaySession /\ recordUserMessage(u, Text(Serial(u)))
  \/ MaySession /\ recordUserImage(u, Serial(u))
  \/ MaySession /\ recordUserVideo(u, Serial(u))
  \/ MaySession /\ recordBotMessage(u, Text(Serial(u)))
  \/ MaySession /\ recordBotMessage(u, MessageObject(Serial(u)))
  \/ getDialogHistory(u)
  \/ clearUserContext(u)

Found(userId) == IF userContexts[userId].exists THEN "known" ELSE "unseen"

NextSession ==
  /\ UNCHANGED <<resolveVars, retrievalVars, webhookVars, workerVars,
               repositoryVars, uploadVars,
               listingVars>>
  /\ \/ Tick
     \/ \E u \in Users :
           /\ SessionOp(u)
           /\ clock' = clock
           /\ cleared' = IF clearUserContext(u)
                         THEN [cleared EXCEPT ![u] = Found(u)]
                         ELSE cleared

SpecSession == InitDialog /\ [][NextSession]_vars

----------------------------------------------------------------------------
(* Dialog store: properties *)

Minimum2(a, b) == IF a <= b THEN a ELSE b

LastOf(seq, n) == SubSeq(seq, Len(seq) - n + 1, Len(seq))

\* C10: after n appends the history of a user holds the last min(n, 10)
\* appended entries, in the order of the appends.
C10_LastTenInOrder ==
  \A u \in Users :
     IF userContexts[u].exists
     THEN LET n == Len(appended[u])
          IN /\ Len(userContexts[u].history) = Minimum2(n, MAX_DIALOG_HISTORY)
             /\ userContexts[u].history =
                   LastOf(appended[u], Minimum2(n, MAX_DIALOG_HISTORY))
     ELSE appended[u] = <<>>

C10_Witness ==
  \E u \in Users :
     /\ userContexts[u].exists
     /\ Len(appended[u]) = MAX_DIALOG_HISTORY + 2
     /\ userContexts[u].history[1] = appended[u][3]
     /\ userContexts[u].history[MAX_DIALOG_HISTORY] = appended[u][MAX_DIALOG_HISTORY + 2]
     /\ \E i \in 1..MAX_DIALOG_HISTORY : userContexts[u].history[i].role = "bot"

----------------------------------------------------------------------------
(* Sessions: properties *)

\* C12: an operation on the session of user A (an append, getDialogHistory,
\* clearUserContext) leaves the context of every other user B, its history
\* and its lastInteraction, as it was; the operations of concurrently handled
\* events are steps of this kind in any order.
C12_OtherUsersUntouched ==
  [][\A a \in Users :
        SessionOp(a) =>
           \A b \in Users \ {a} : userContexts'[b] = userContexts[b]]_vars

C12_Witness ==
  /\ userContexts["U1"].exists
  /\ userContexts["U2"].exists
  /\ Len(userContexts["U1"].history) = 1
  /\ Len(userContexts["U2"].history) = 2
  /\ userContexts["U1"].lastInteraction = 0
  /\ userContexts["U2"].lastInteraction = MaxClock

\* C13: once clearUserContext(u) has run, for a user it found known or
\* unseen, getDialogHistory(u) returns without raising exactly the entries
\* appended since that clear, in order: none when nothing was appended.
C13_OnlyEntriesSinceClear ==
  \A u \in Users :
     cleared[u] # "never" =>
        /\ DialogHistory(userContexts, u, clock) = appended[u]
        /\ (appended[u] = <<>> => DialogHistory(userContexts, u, clock) = <<>>)

C13_Witness ==
  /\ cleared["U1"] = "known"
  /\ cleared["U2"] = "unseen"
  /\ Len(appended["U1"]) = 2
  /\ userContexts["U1"].exists
  /\ userContexts["U1"].history = appended["U1"]
  /\ ~userContexts["U2"].exists

----------------------------------------------------------------------------
(* Department listing: properties *)

\* the documents getDepartmentEntries fetched: the store returned a record
\* of the stored shape
FetchedDocuments ==
  {id \in StoredIds :
     /\ kv.docs[id].state = "stored"
     /\ HasText(kv.docs[id].value)
     /\ \E i \in DocumentGets \ FailedCalls :
           calls[i].key = <<KNOWLEDGE>> \o id}

\* C14: the listing of department c (c as getDepartmentEntries normalizes
\* it) holds one entry for each stored document id beginning with 'c-' whose
\* fetch succeeds, and only those; a document whose fetch fails, that is
\* absent or whose record is unusable is dropped alone and costs no other
\* entry.
C14_EntryPerFetchedDocument ==
  (Responded /\ ResolvedDepartment /\ ListCalls \cap FailedCalls = {}) =>
     LET c == toLowerCase(trim(response.department))
         listed == {response.entries[i].id : i \in 1..Len(response.entries)}
     IN /\ listed = {id \in FetchedDocuments : startsWith(id, c \o <<"-">>)}
        /\ Len(response.entries) = Cardinality(listed)

----------------------------------------------------------------------------
(* Webhook: handleWebhook runs handleEvent on every event of the request   *)
(* with events.map and awaits them together.  The map calls each handler   *)
(* in turn and each runs to its first await, so the synchronous parts run  *)
(* in the order of the events; what follows an await runs once the map is  *)
(* through, the handlers interleaved in any order.  An entry of a history  *)
(* carries the number of the event it was recorded for.                    *)

\* the store behind the handlers: one department with two documents
KnowledgeStore ==
  [bound |-> TRUE,
   index |-> Stored(<<[key |-> <<"a">>, value |-> MarkerA],
                      [key |-> <<"b">>, value |-> DocX]>>),
   docs |-> [id \in DocIds |->
               IF id = DocB THEN Absent ELSE Stored(GoodDoc(id))]]

WebhookStores == {NoStore, KnowledgeStore}

\* texts that resolve to the department, to a document and to nothing
WebhookTexts == {<<"a">>, <<"b">>, <<"x">>}

MessageTypes == {"text", "image", "video", "sticker"}
EventTypes == {"message", "follow", "unfollow", "postback", "beacon"}

InboundEvents ==
  {[type |-> "message", message |-> "text", text |-> t, userId |-> u] :
      t \in WebhookTexts, u \in Users} \cup
  {[type |-> "message", message |-> m, text |-> <<>>, userId |-> u] :
      m \in MessageTypes \ {"text"}, u \in Users} \cup
  {[type |-> e, message |-> "none", text |-> <<>>, userId |-> u] :
      e \in EventTypes \ {"message"}, u \in Users}

\* the text, image and video handlers catch what their body throws
HasHandlerCatch(event) ==
  event.type = "message" /\ event.message \in {"text", "image", "video"}

Indices == 1..Len(events)

MapDone == \A j \in Indices : pc[j] # "pending"

\* lineClient.replyMessage(replyToken, ...) is called for event i
Issue(i, kind) ==
  replies' = [replies EXCEPT
                ![i] = Append(@, [kind |-> kind, outcome |-> "inflight"])]

\* the call of event i that has not completed is its last one
Complete(i, outcome) ==
  [replies EXCEPT ![i][Len(replies[i])].outcome = outcome]

FailedReplies ==
  Cardinality(UNION {{<<i, k>> : k \in {h \in DOMAIN replies[i] :
                                             replies[i][h].outcome = "failed"}} :
                        i \in Indices})

MayFail == FailedReplies < MaxReplyFailures

\* the call in flight throws and a catch block calls replyMessage again
Retry(i, kind) ==
  [replies EXCEPT
     ![i] = Append([@ EXCEPT ![Len(@)].outcome = "failed"],
                   [kind |-> kind, outcome |-> "inflight"])]

\* the store calls of one getResponse: all succeed, or one of them fails
SingleFaults ==
  {f \in Faults :
     Cardinality(f.docs) + (IF f.index THEN 1 ELSE 0)
                         + (IF f.list THEN 1 ELSE 0) <= 1}

\* what handleText sees of a getResponse call, and whether the store was
\* unbound or a store call of it failed
Outcome(r) ==
  [kind |-> r.result.kind,
   failed |-> ~kv.bound \/ \E k \in 1..Len(r.calls) : r.calls[k].failed]

NotRetrieved == [kind |-> "not called", failed |-> FALSE]

\* the channel secret of the deployment, and a secret a forger signs with;
\* config.line.channelSecret holds the first, or nothing when it is not set
ChannelSecret == "channel secret"
Secrets == {ChannelSecret, "guess"}
Unset == "undefined"

\* the x-line-signature header: absent, empty, or a digest
NoHeader == [header |-> "absent"]
EmptyHeader == [header |-> "empty"]

\* createHmac('SHA256', secret).update(body).digest('base64'): two digests
\* are equal when made with the same secret over the same body
Hmac(secret, body) == [header |-> "digest", key |-> secret, over |-> body]

\* the body of a request: JSON with an events array, JSON without one, or
\* text that is not JSON
Payload(es) == [kind |-> "events", events |-> es]
Unparseable == [kind |-> "unparseable"]
NoEventsField == [kind |-> "no events"]

\* mutant: the digest is not compared with the body's own
validateSignature_anyBody(body, signature) ==
  /\ request.channelSecret # Unset
  /\ signature.header = "digest"
  /\ signature.key = request.channelSecret

\* createHmac throws without a secret, and the catch returns false
validateSignature(body, signature) ==
  /\ request.channelSecret # Unset
  /\ Hmac(request.channelSecret, body) = signature

\* a request that passed the signature check and whose body was parsed
Accepted(es) ==
  [state |-> "handling", channelSecret |-> ChannelSecret,
   signature |-> Hmac(ChannelSecret, Payload(es)), body |-> Payload(es)]

\* the events of one request are those of one user: the sessions of two
\* users share nothing
InitWebhook ==
  /\ kv \in WebhookStores
  /\ events \in UNION {[1..n -> {e \in InboundEvents : e.userId = "U1"}] :
                         n \in 1..MaxEvents}
  /\ pc = [i \in 1..Len(events) |-> "pending"]
  /\ replies = [i \in 1..Len(events) |-> <<>>]
  /\ retrieved = [i \in 1..Len(events) |-> NotRetrieved]
  /\ request = Accepted(events)
  /\ httpResponse = [status |-> 0]
  /\ config = Loaded("development")
  /\ keywordIndex = <<>>
  /\ query = <<>>
  /\ knowledgeId = NotCalled
  /\ response = [kind |-> "not called"]
  /\ calls = <<>>
  /\ NoDialog
  /\ NoLookups
  /\ NoUpload
  /\ NoListing

\* handleEvent(event) up to its first await
Dispatch(i) ==
  /\ pc[i] = "pending"
  /\ \A j \in 1..(i - 1) : pc[j] # "pending"
  /\ LET event == events[i]
     IN IF event.type = "message" /\ event.message = "text"
        THEN /\ recordUserMessage(event.userId, Text(i))
             /\ pc' = [pc EXCEPT ![i] = "retrieving"]
             /\ UNCHANGED replies
        ELSE IF event.type = "message" /\ event.message = "image"
        THEN /\ recordUserImage(event.userId, i)
             /\ pc' = [pc EXCEPT ![i] = "recorded"]
             /\ UNCHANGED replies
        ELSE IF event.type = "message" /\ event.message = "video"
        THEN /\ recordUserVideo(event.userId, i)
             /\ pc' = [pc EXCEPT ![i] = "recorded"]
             /\ UNCHANGED replies
        ELSE IF event.type = "message"
        THEN /\ Issue(i, "unsupported")
             /\ pc' = [pc EXCEPT ![i] = "replying"]
             /\ UNCHANGED <<userContexts, appended>>
        ELSE IF event.type = "follow"
        THEN /\ Issue(i, "welcome")
             /\ pc' = [pc EXCEPT ![i] = "replying"]
             /\ UNCHANGED <<userContexts, appended>>
        ELSE IF event.type = "postback"
        THEN /\ Issue(i, "received")
             /\ pc' = [pc EXCEPT ![i] = "replying"]
             /\ UNCHANGED <<userContexts, appended>>
        ELSE /\ pc' = [pc EXCEPT ![i] = "done"]
             /\ UNCHANGED <<userContexts, appended, replies>>
  /\ UNCHANGED <<events, retrieved, httpResponse>>

\* mutant: the general reply is sent without being recorded
Retrieve_unrecorded(i, faults) ==
  /\ MapDone
  /\ pc[i] = "retrieving"
  /\ LET event == events[i]
         r == getResponse(kv, faults, event.text)
     IN /\ retrieved' = [retrieved EXCEPT ![i] = Outcome(r)]
        /\ IF r.result # ResNull
           THEN /\ recordBotMessage(event.userId, MessageObject(i))
                /\ Issue(i, r.result.kind)
           ELSE /\ UNCHANGED <<userContexts, appended>>
                /\ Issue(i, "general")
  /\ pc' = [pc EXCEPT ![i] = "replying"]
  /\ UNCHANGED <<events, httpResponse>>

\* handleText from getResponse to the call of replyMessage
Retrieve(i, faults) ==
  /\ MapDone
  /\ pc[i] = "retrieving"
  /\ LET event == events[i]
         r == getResponse(kv, faults, event.text)
     IN /\ retrieved' = [retrieved EXCEPT ![i] = Outcome(r)]
        /\ IF r.result # ResNull
           THEN /\ recordBotMessage(event.userId, MessageObject(i))
                /\ Issue(i, r.result.kind)
           ELSE /\ recordBotMessage(event.userId, Text(i))
                /\ Issue(i, "general")
  /\ pc' = [pc EXCEPT ![i] = "replying"]
  /\ UNCHANGED <<events, httpResponse>>

\* handleImage and handleVideo from the bot entry to the call of replyMessage
Acknowledge(i) ==
  /\ MapDone
  /\ pc[i] = "recorded"
  /\ recordBotMessage(events[i].userId, Text(i))
  /\ Issue(i, "acknowledgement")
  /\ pc' = [pc EXCEPT ![i] = "replying"]
  /\ UNCHANGED <<events, retrieved, httpResponse>>

\* mutant: the handler sends its apology after a reply that went through
ReplySucceeds_apologizes(i) ==
  /\ MapDone
  /\ pc[i] \in {"replying", "apologizing"}
  /\ IF pc[i] = "replying" /\ HasHandlerCatch(events[i])
     THEN /\ replies' = [Complete(i, "ok") EXCEPT
                           ![i] = Append(@, [kind |-> "apology",
                                             outcome |-> "inflight"])]
          /\ pc' = [pc EXCEPT ![i] = "apologizing"]
     ELSE /\ replies' = Complete(i, "ok")
          /\ pc' = [pc EXCEPT ![i] = "done"]
  /\ UNCHANGED <<events, retrieved, httpResponse, userContexts, appended>>

\* a replyMessage call returns
ReplySucceeds(i) ==
  /\ MapDone
  /\ pc[i] \in {"replying", "apologizing"}
  /\ replies' = Complete(i, "ok")
  /\ pc' = [pc EXCEPT ![i] = "done"]
  /\ UNCHANGED <<events, retrieved, httpResponse, userContexts, appended>>

\* the reply of a handler throws: the catch of the handler sends its apology,
\* and where there is none the catch of handleEvent sends its own
ReplyFails(i) ==
  /\ MapDone
  /\ pc[i] = "replying"
  /\ MayFail
  /\ IF HasHandlerCatch(events[i])
     THEN /\ replies' = Retry(i, "apology")
          /\ pc' = [pc EXCEPT ![i] = "apologizing"]
     ELSE /\ replies' = Retry(i, "last resort")
          /\ pc' = [pc EXCEPT ![i] = "last resort"]
  /\ UNCHANGED <<events, retrieved, httpResponse, userContexts, appended>>

\* the apology of a handler throws: the catch of handleEvent sends its own
ApologyFails(i) ==
  /\ MapDone
  /\ pc[i] = "apologizing"
  /\ MayFail
  /\ replies' = Retry(i, "last resort")
  /\ pc' = [pc EXCEPT ![i] = "last resort"]
  /\ UNCHANGED <<events, retrieved, httpResponse, userContexts, appended>>

\* the reply of handleEvent's catch completes, and the error is thrown again
Rethrow(i, outcome) ==
  /\ MapDone
  /\ pc[i] = "last resort"
  /\ outcome = "failed" => MayFail
  /\ replies' = Complete(i, outcome)
  /\ pc' = [pc EXCEPT ![i] = "rejected"]
  /\ UNCHANGED <<events, retrieved, httpResponse, userContexts, appended>>

\* Promise.all settles: 200 once every handler returned, and 500 from the
\* route as soon as one has thrown
Respond ==
  /\ request.state = "handling"
  /\ httpResponse.status = 0
  /\ \/ /\ \A j \in Indices : pc[j] = "done"
        /\ httpResponse' = [status |-> 200]
     \/ /\ \E j \in Indices : pc[j] = "rejected"
        /\ httpResponse' = [status |-> 500]
  /\ UNCHANGED <<events, pc, replies, retrieved, userContexts, appended>>

NextWebhook ==
  /\ UNCHANGED <<resolveVars, kv, response, calls, clock, cleared, config,
                 request, repositoryVars, uploadVars, listingVars>>
  /\ \/ \E i \in Indices : Dispatch(i)
     \/ \E i \in Indices, faults \in SingleFaults : Retrieve(i, faults)
     \/ \E i \in Indices : Acknowledge(i)
     \/ \E i \in Indices : ReplySucceeds(i)
     \/ \E i \in Indices : ReplyFails(i)
     \/ \E i \in Indices : ApologyFails(i)
     \/ \E i \in Indices, outcome \in {"ok", "failed"} : Rethrow(i, outcome)
     \/ Respond

SpecWebhook == InitWebhook /\ [][NextWebhook]_vars

----------------------------------------------------------------------------
(* Webhook: properties *)

\* the event an entry of a history was recorded for
EventOf(entry) == entry.content[2]

EntriesOf(i, role) ==
  SelectSeq(appended[events[i].userId],
            LAMBDA e : e.role = role /\ EventOf(e) = i)

\* C11: the history of a user is ordered by dispatch: every entry recorded
\* for an event precedes every entry recorded for an event dispatched after
\* it, under every interleaving of the store and reply awaits.
C11_DispatchOrder ==
  \A u \in Users :
     userContexts[u].exists =>
        \A p, q \in 1..Len(userContexts[u].history) :
           p < q => EventOf(userContexts[u].history[p])
                       <= EventOf(userContexts[u].history[q])

\* C15: when the store is unavailable or a store call fails while a text
\* event is handled, the reply handleText sends is the generic reply of
\* generateGeneralResponse: no knowledge, no listing, no apology.
C15_GenericOnStoreFailure ==
  \A i \in Indices :
     (retrieved[i].kind # "not called" /\ retrieved[i].failed) =>
        replies[i][1].kind = "general"

\* C16: every message event adds a user entry to the history of its user
\* and every reply sent for an event adds a bot entry to it.
C16_EveryMessageRecorded ==
  \A i \in Indices :
     pc[i] # "pending" =>
        /\ events[i].type = "message" => Len(EntriesOf(i, "user")) = 1
        /\ Len(EntriesOf(i, "bot")) = Len(replies[i])

----------------------------------------------------------------------------
(* Worker: fetch(request, env) applies env with config.setEnv and routes   *)
(* the request.  The configuration module exports { ...config, setEnv, ... } *)
(* built when the module loads: the export holds its own copy of the       *)
(* string config.environment and shares the objects config.line and        *)
(* config.kv.  setEnv assigns to config; the routes read the export.       *)

Environments == {"development", "production"}

\* what typeof ENVIRONMENT finds when the module loads
GlobalEnvironments == {"undefined"} \cup Environments

\* what env.ENVIRONMENT holds
BoundEnvironments == {"undefined"} \cup Environments

\* the requests of the GET routes; q is the value of the parameter of /search
Paths == {"/", "/system-check", "/search", "/other"}

\* const config = { environment: typeof ENVIRONMENT !== 'undefined' ? ... }
LoadConfig(global) ==
  Loaded(IF global # "undefined" THEN global ELSE "development")

\* config.environment = env.ENVIRONMENT || 'development'
setEnv(cfg, env) ==
  [cfg EXCEPT !.inner = IF env.ENVIRONMENT # "undefined" THEN env.ENVIRONMENT
                        ELSE "development"]

\* mutant: a department is listed only for a query equal to its key
SearchDepartments_equal(index, q) ==
  SelectSeq(ObjectEntries(index),
            LAMBDA e : /\ startsWith(e.value, <<DEPT>>)
                       /\ toLowerCase(e.key) = toLowerCase(q))

\* the entries of result.departments of /search
SearchDepartments(index, q) ==
  SelectSeq(ObjectEntries(index),
            LAMBDA e : /\ startsWith(e.value, <<DEPT>>)
                       /\ \/ toLowerCase(e.key) = toLowerCase(q)
                          \/ includes(toLowerCase(q), toLowerCase(e.key)))

\* the entries of result.matches of /search
SearchMatches(index, q) ==
  SelectSeq(ObjectEntries(index),
            LAMBDA e : /\ ~startsWith(e.value, <<DEPT>>)
                       /\ \/ toLowerCase(e.key) = toLowerCase(q)
                          \/ includes(toLowerCase(e.key), toLowerCase(q))
                          \/ includes(toLowerCase(q), toLowerCase(e.key)))

Forbidden(path) == [path |-> path, status |-> 403]

\* router.get('/system-check')
SystemCheck(cfg) ==
  IF cfg.exported = "production"
  THEN [response |-> Forbidden("/system-check"), calls |-> <<>>]
  ELSE [response |-> [path |-> "/system-check", status |-> 200,
                      environment |-> cfg.exported],
        calls |-> <<>>]

\* router.get('/search'): whatever the try block throws is answered 500
Search(cfg, store, env, q, failed) ==
  IF cfg.exported = "production"
  THEN [response |-> Forbidden("/search"), calls |-> <<>>]
  ELSE IF q = <<>>
  THEN [response |-> [path |-> "/search", status |-> 400], calls |-> <<>>]
  ELSE IF ~env.NURSING_KNOWLEDGE
  THEN [response |-> [path |-> "/search", status |-> 500], calls |-> <<>>]
  ELSE LET call == StoreGet(<<"keyword-index">>, failed)
       IN IF \/ failed
             \/ store.index.state # "stored"
             \/ \E i \in 1..Len(store.index.value) :
                   ~IsString(store.index.value[i].value)
          THEN [response |-> [path |-> "/search", status |-> 500],
                calls |-> <<call>>]
          ELSE [response |->
                  [path |-> "/search", status |-> 200, query |-> q,
                   matches |-> SearchMatches(store.index.value, q),
                   departments |->
                     [i \in 1..Len(SearchDepartments(store.index.value, q)) |->
                        [key |-> SearchDepartments(store.index.value, q)[i].key,
                         value |-> replaceFirst(
                            SearchDepartments(store.index.value, q)[i].value,
                            <<DEPT>>)]]],
                calls |-> <<call>>]

\* router.handle(request) for a GET request
Route(cfg, store, env, path, q, failed) ==
  IF path = "/"
  THEN [response |-> [path |-> path, status |-> 200], calls |-> <<>>]
  ELSE IF path = "/system-check" THEN SystemCheck(cfg)
  ELSE IF path = "/search" THEN Search(cfg, store, env, q, failed)
  ELSE [response |-> [path |-> path, status |-> 404], calls |-> <<>>]

WorkerEnvs == [ENVIRONMENT : BoundEnvironments, NURSING_KNOWLEDGE : BOOLEAN]

InitWorker ==
  /\ \E global \in GlobalEnvironments : config = LoadConfig(global)
  /\ httpResponse = [status |-> 0]
  /\ kv \in {[bound |-> FALSE, index |-> ix, docs |-> [id \in DocIds |-> Absent]] :
               ix \in IndexStates}
  /\ keywordIndex = <<>>
  /\ query = <<>>
  /\ knowledgeId = NotCalled
  /\ response = [kind |-> "not called"]
  /\ calls = <<>>
  /\ NoDialog
  /\ NoWebhook
  /\ NoLookups
  /\ NoUpload
  /\ NoListing

\* export default { async fetch(request, env, ctx) }
Fetch(env, path, q, failed) ==
  /\ config' = setEnv(config, env)
  /\ kv' = [kv EXCEPT !.bound = @ \/ env.NURSING_KNOWLEDGE]
  /\ LET routed == Route(config', kv, env, path, q, failed)
     IN /\ httpResponse' = routed.response
        /\ calls' = routed.calls
  /\ query' = q
  /\ UNCHANGED <<keywordIndex, knowledgeId, response, dialogVars, webhookVars,
                 repositoryVars, uploadVars,
               listingVars>>

NextWorker ==
  \E env \in WorkerEnvs, path \in Paths, q \in StoredQueries \cup {<<>>},
     failed \in BOOLEAN :
     /\ path # "/search" => (q = <<>> /\ ~failed)
     /\ Fetch(env, path, q, failed)

SpecWorker == InitWorker /\ [][NextWorker]_vars

----------------------------------------------------------------------------
(* Worker: properties *)

\* C17: a request to /system-check or /search answered after setEnv applied
\* env.ENVIRONMENT = 'production' gets 403 and reads nothing from the store.
C17_DiagnosticsForbidden ==
  (config.inner = "production" /\ httpResponse.status # 0
     /\ httpResponse.path \in {"/system-check", "/search"}) =>
     /\ httpResponse.status = 403
     /\ calls = <<>>

----------------------------------------------------------------------------
(* Repository: getKnowledgeById called again and again while the upload    *)
(* commands write documents.  Every call and every write is logged.        *)

LookupIds == {DocX, DocY}

NoFaults == [index |-> FALSE, list |-> FALSE, docs |-> {}]

\* the documents of the store are written from outside: wrangler kv:key put
StorePut(id, value) ==
  /\ Len(lookups) < MaxLookups
  /\ value \in DocStates(id) \ {Absent}
  /\ kv' = [kv EXCEPT !.docs[id] = value]
  /\ lookups' = Append(lookups, [op |-> "put", id |-> id])

\* what a call returns: the parsed record, or null
Returned(found) ==
  IF found.found THEN [kind |-> "record", record |-> found.value] ELSE ResNull

\* the earlier calls for id that threw, with no write of id since
FailedBefore(id) ==
  {i \in 1..Len(lookups) :
     /\ lookups[i].op = "get" /\ lookups[i].id = id /\ lookups[i].failed
     /\ \A h \in (i + 1)..Len(lookups) :
           ~(lookups[h].op = "put" /\ lookups[h].id = id)}

\* mutant: a get that threw is remembered, and the id is reported missing
Lookup_remembered(id, failed) ==
  /\ Len(lookups) < MaxLookups
  /\ failed => kv.bound
  /\ LET found == getKnowledgeById(kv, [NoFaults EXCEPT !.docs =
                                          IF failed THEN {id} ELSE {}], id)
     IN lookups' = Append(lookups,
                          [op |-> "get", id |-> id, failed |-> failed,
                           result |-> IF FailedBefore(id) # {} THEN ResNull
                                      ELSE Returned(found)])
  /\ UNCHANGED kv

\* await getKnowledgeById(id); failed: the get of the store throws
Lookup(id, failed) ==
  /\ Len(lookups) < MaxLookups
  /\ failed => kv.bound
  /\ LET found == getKnowledgeById(kv, [NoFaults EXCEPT !.docs =
                                          IF failed THEN {id} ELSE {}], id)
     IN lookups' = Append(lookups,
                          [op |-> "get", id |-> id, failed |-> failed,
                           result |-> Returned(found)])
  /\ UNCHANGED kv

InitRepository ==
  /\ kv \in {[bound |-> b, index |-> Absent, docs |-> ds] :
               b \in BOOLEAN,
               ds \in {d \in [DocIds -> UNION {DocStates(id) : id \in DocIds}] :
                         /\ \A id \in LookupIds : d[id] \in DocStates(id)
                         /\ d[DocB] = Absent}}
  /\ lookups = <<>>
  /\ keywordIndex = <<>>
  /\ query = <<>>
  /\ knowledgeId = NotCalled
  /\ response = [kind |-> "not called"]
  /\ calls = <<>>
  /\ NoDialog
  /\ NoWebhook
  /\ NoWorker
  /\ NoUpload
  /\ NoListing

NextRepository ==
  /\ UNCHANGED <<resolveVars, response, calls, dialogVars, webhookVars,
                 workerVars, uploadVars,
               listingVars>>
  /\ \/ \E id \in LookupIds, failed \in BOOLEAN : Lookup(id, failed)
     \/ \E id \in LookupIds, value \in UNION {DocStates(d) : d \in LookupIds} :
           StorePut(id, value)

SpecRepository == InitRepository /\ [][NextRepository]_vars

----------------------------------------------------------------------------
(* Repository: properties *)

\* two calls for the same id with no write of it in between
SameValue(i, j) ==
  /\ i < j
  /\ lookups[i].op = "get" /\ lookups[j].op = "get"
  /\ lookups[i].id = lookups[j].id
  /\ \A h \in (i + 1)..(j - 1) :
        ~(lookups[h].op = "put" /\ lookups[h].id = lookups[i].id)

----------------------------------------------------------------------------
(* Response service: generateGeneralResponse.  A character of a phrase is  *)
(* written by its reading; the fixed replies and the members of the three  *)
(* pools are single symbols.                                               *)

GreetingPhrases == {<<"ni", "hao">>, <<"ha", "luo">>, <<"hai">>}
GratitudePhrases == {<<"xie", "xie">>, <<"gan", "xie">>}
HelpPhrases == {<<"bang", "zhu">>, <<"h", "e", "l", "p">>,
                <<"shi", "yong", "shuo", "ming">>}

GreetingReply == <<"<greeting reply>">>
GratitudeReply == <<"<gratitude reply>">>
UsageReply == <<"<usage reply>">>

PoolSize == 4

friendlyPrefixes == [i \in 1..PoolSize |-> <<"prefix", i>>]
defaultResponses == [i \in 1..PoolSize |-> <<"response", i>>]
encouragingSuffixes == [i \in 1..PoolSize |-> <<"suffix", i>>]

ContainsAny(text, phrases) == \E p \in phrases : includes(text, p)

\* mutant: the gratitude rule is tried before the greeting rule
handleSpecialKeywords_gratitudeFirst(text) ==
  IF ContainsAny(text, GratitudePhrases) THEN GratitudeReply
  ELSE IF ContainsAny(text, GreetingPhrases) THEN GreetingReply
  ELSE IF ContainsAny(text, HelpPhrases) THEN UsageReply
  ELSE Null

handleSpecialKeywords(text) ==
  IF ContainsAny(text, GreetingPhrases) THEN GreetingReply
  ELSE IF ContainsAny(text, GratitudePhrases) THEN GratitudeReply
  ELSE IF ContainsAny(text, HelpPhrases) THEN UsageReply
  ELSE Null

\* `${prefix} ${response} ${suffix}`, each picked with Math.random
generateDefaultResponse(i, j, k) ==
  <<friendlyPrefixes[i], " ", defaultResponses[j], " ", encouragingSuffixes[k]>>

generateGeneralResponse(text, i, j, k) ==
  LET specialResponse == handleSpecialKeywords(text)
  IN IF specialResponse # Null THEN specialResponse
     ELSE generateDefaultResponse(i, j, k)

\* the inputs: up to MaxPieces phrases and loose characters, one after another
Pieces ==
  GreetingPhrases \cup GratitudePhrases \cup HelpPhrases
    \cup {<<"ni">>, <<"xie">>, <<"x">>}

GeneralQueries ==
  {Flatten(ps) : ps \in UNION {[1..n -> Pieces] : n \in 0..MaxPieces}}

InitGeneral ==
  /\ query \in GeneralQueries
  /\ response = [kind |-> "not called"]
  /\ keywordIndex = <<>>
  /\ knowledgeId = NotCalled
  /\ kv = NoStore
  /\ calls = <<>>
  /\ NoDialog
  /\ NoWebhook
  /\ NoWorker
  /\ NoLookups
  /\ NoUpload
  /\ NoListing

GenerateGeneralResponse(i, j, k) ==
  /\ response.kind = "not called"
  /\ response' = [kind |-> "general",
                  text |-> generateGeneralResponse(query, i, j, k)]
  /\ UNCHANGED <<keywordIndex, query, knowledgeId, kv, calls, dialogVars,
                 webhookVars, workerVars, repositoryVars, uploadVars,
               listingVars>>

NextGeneral ==
  \E i, j, k \in 1..PoolSize : GenerateGeneralResponse(i, j, k)

SpecGeneral == InitGeneral /\ [][NextGeneral]_vars

----------------------------------------------------------------------------
(* Response service: properties *)

\* C19: the rules apply in a fixed order and the first match wins: a greeting
\* phrase gives the greeting reply whatever else the input holds; otherwise a
\* gratitude phrase gives the acknowledgement; otherwise a help phrase gives
\* the usage reply; otherwise the reply is a prefix, a body and a suffix, each
\* from its pool of 4, joined by spaces.
C19_FirstRuleWins ==
  response.kind = "general" =>
     IF \E p \in GreetingPhrases : includes(query, p)
     THEN response.text = GreetingReply
     ELSE IF \E p \in GratitudePhrases : includes(query, p)
     THEN response.text = GratitudeReply
     ELSE IF \E p \in HelpPhrases : includes(query, p)
     THEN response.text = UsageReply
     ELSE /\ Len(response.text) = 5
          /\ \E i \in 1..PoolSize : response.text[1] = friendlyPrefixes[i]
          /\ \E j \in 1..PoolSize : response.text[3] = defaultResponses[j]
          /\ \E k \in 1..PoolSize : response.text[5] = encouragingSuffixes[k]
          /\ response.text[2] = " " /\ response.text[4] = " "

C19_Witness ==
  /\ response.kind = "general"
  /\ response.text = GreetingReply
  /\ includes(query, <<"gan", "xie">>)
  /\ includes(query, <<"h", "e", "l", "p">>)
  /\ query[1] = "gan"

----------------------------------------------------------------------------
(* Upload tools: generateJsonFiles of upload-iso-files.js and of           *)
(* upload-knowledge.js builds the keyword index from the department list   *)
(* and the keywords of the knowledge entries.                              *)

Tools == {"upload-iso-files", "upload-knowledge"}

\* const departments = [{ code, name }, ...]: two of the codes
departments ==
  <<[code |-> <<"a">>, name |-> <<"A", " ", "w", "a", "r", "d">>],
    [code |-> <<"b">>, name |-> <<"B", " ", "w", "a", "r", "d">>]>>

\* keywordIndex[key] = value: an own key keeps its place
Assign(obj, key, value) ==
  IF \E i \in 1..Len(obj) : obj[i].key = key
  THEN [i \in 1..Len(obj) |->
          IF obj[i].key = key THEN [key |-> key, value |-> value] ELSE obj[i]]
  ELSE Append(obj, [key |-> key, value |-> value])

\* obj[key], undefined written Null
Property(obj, key) ==
  IF \E i \in 1..Len(obj) : obj[i].key = key
  THEN obj[CHOOSE i \in 1..Len(obj) : obj[i].key = key].value
  ELSE Null

RECURSIVE AddDepartments(_, _)
AddDepartments(obj, i) ==
  IF i > Len(departments) THEN obj
  ELSE AddDepartments(Assign(obj, departments[i].code,
                             <<DEPT>> \o departments[i].code), i + 1)

\* departments.some(dept => dept.code === lowerKeyword)
SomeDepartmentCode(lowerKeyword) ==
  \E i \in 1..Len(departments) : departments[i].code = lowerKeyword

\* an object { code, name } and a string are never the same value
SameValueZero(department, lowerKeyword) == FALSE

\* departments.includes(lowerKeyword)
DepartmentsInclude(lowerKeyword) ==
  \E i \in 1..Len(departments) : SameValueZero(departments[i], lowerKeyword)

Conflicts(tool, keyword) ==
  IF tool = "upload-iso-files"
  THEN SomeDepartmentCode(toLowerCase(keyword))
  ELSE DepartmentsInclude(toLowerCase(keyword))

RECURSIVE AddKeywords(_, _, _, _)
AddKeywords(tool, obj, entry, i) ==
  IF i > Len(entry.keywords) THEN obj
  ELSE AddKeywords(tool,
                   IF Conflicts(tool, entry.keywords[i]) THEN obj
                   ELSE Assign(obj, entry.keywords[i], entry.id),
                   entry, i + 1)

RECURSIVE AddEntries(_, _, _, _)
AddEntries(tool, obj, isoKnowledge, i) ==
  IF i > Len(isoKnowledge) THEN obj
  ELSE AddEntries(tool, AddKeywords(tool, obj, isoKnowledge[i], 1),
                  isoKnowledge, i + 1)

\* the keyword index generateJsonFiles writes to keyword-index.json
generateJsonFiles(tool, isoKnowledge) ==
  AddEntries(tool, AddDepartments(<<>>, 1), isoKnowledge, 1)

UploadKeywords == {<<"a">>, <<"A">>, <<"k">>}

KnowledgeEntries ==
  [id : {DocX, DocY},
   keywords : UNION {[1..n -> UploadKeywords] : n \in 0..MaxKeywords}]

InitUpload ==
  /\ upload \in [tool : Tools, written : {FALSE},
                 isoKnowledge : UNION {[1..n -> KnowledgeEntries] :
                                         n \in 0..MaxDocuments}]
  /\ keywordIndex = <<>>
  /\ query = <<>>
  /\ knowledgeId = NotCalled
  /\ kv = NoStore
  /\ response = [kind |-> "not called"]
  /\ calls = <<>>
  /\ NoDialog
  /\ NoWebhook
  /\ NoWorker
  /\ NoLookups
  /\ NoListing

\* main(): with no knowledge entry nothing is generated
Main ==
  /\ ~upload.written
  /\ Len(upload.isoKnowledge) > 0
  /\ keywordIndex' = generateJsonFiles(upload.tool, upload.isoKnowledge)
  /\ upload' = [upload EXCEPT !.written = TRUE]
  /\ UNCHANGED <<query, knowledgeId, retrievalVars, dialogVars, webhookVars,
                 workerVars, repositoryVars,
               listingVars>>

NextUpload == Main

SpecUpload == InitUpload /\ [][NextUpload]_vars

----------------------------------------------------------------------------
(* Upload tools: properties *)

\* C20: in the index either tool generates, every department code c maps to
\* 'Department:c', whatever keywords the knowledge entries declare.
C20_MarkersKept ==
  upload.tool # "none" /\ upload.written =>
     \A i \in 1..Len(departments) :
        Property(keywordIndex, departments[i].code)
           = <<DEPT>> \o departments[i].code

----------------------------------------------------------------------------
(* Department listing: the per-document fetches of getDepartmentEntries,   *)
(* issued together and joined by Promise.all                               *)

ListedDepartments == {<<"a">>, <<"b">>, <<" ", "A">>}

\* what a callback of the map settles with
Pending == [state |-> "pending"]
Rejected == [state |-> "rejected"]
Fulfilled(v) == [state |-> "fulfilled", value |-> v]
FulfilledNull == [state |-> "fulfilled with null"]

Slots == IF listing.phase = "idle" THEN {} ELSE DOMAIN listing.slots

\* mutant: the entries are collected as their fetches complete
JoinedEntries_arrival(slots, order) ==
  LET IsEntry(i) == slots[i].state = "fulfilled"
      arrived == SelectSeq(order, IsEntry)
  IN [k \in 1..Len(arrived) |-> slots[arrived[k]].value]

\* the array Promise.all resolves with holds the value of callback i at
\* index i; entries.filter(entry => entry !== null) keeps that order
JoinedEntries(slots, order) ==
  LET IsEntry(i) == slots[i].state = "fulfilled"
      positions == SelectSeq([i \in 1..Len(slots) |-> i], IsEntry)
  IN [k \in 1..Len(positions) |-> slots[positions[k]].value]

InitListing ==
  /\ kv \in {[bound |-> TRUE, index |-> Absent, docs |-> ds] :
               ds \in {d \in [DocIds -> UNION {DocStates(id) : id \in DocIds}] :
                         \A id \in DocIds : d[id] \in DocStates(id)}}
  /\ listing = [phase |-> "idle"]
  /\ messages = <<>>
  /\ pressed = NotPressed
  /\ keywordIndex = <<>>
  /\ query = <<>>
  /\ knowledgeId = NotCalled
  /\ response = [kind |-> "not called"]
  /\ calls = <<>>
  /\ NoDialog
  /\ NoWebhook
  /\ NoWorker
  /\ NoLookups
  /\ NoUpload

\* getDepartmentEntries up to the await of Promise.all: the ids are listed
\* and filtered, and every callback of the map runs up to its store get
StartListing(department, failed) ==
  /\ listing.phase = "idle"
  /\ LET normalizedDepartment == toLowerCase(trim(department))
         allIds == getAllKnowledgeIds(kv, [NoFaults EXCEPT !.list = failed])
         InDepartment(id) == startsWith(id, normalizedDepartment \o <<"-">>)
         departmentIds == SelectSeq(allIds.value, InDepartment)
     IN /\ listing' =
             [phase |-> IF Len(departmentIds) = 0 THEN "returned" ELSE "fetching",
              department |-> department,
              listed |-> ~failed,
              ids |-> departmentIds,
              slots |-> [i \in 1..Len(departmentIds) |-> Pending],
              order |-> <<>>,
              failed |-> {},
              entries |-> <<>>]
        /\ calls' = allIds.calls \o
                    [i \in 1..Len(departmentIds) |->
                       StoreGet(<<KNOWLEDGE>> \o departmentIds[i], FALSE)]
  /\ UNCHANGED <<resolveVars, kv, response, dialogVars, webhookVars,
                 workerVars, repositoryVars, uploadVars,
                 messages, pressed>>

\* the get of callback i completes and the callback runs to its end
Settle(i, failed) ==
  /\ listing.phase # "idle"
  /\ i \in Slots
  /\ listing.slots[i] = Pending
  /\ LET id == listing.ids[i]
         entry == getKnowledgeById(kv, [NoFaults EXCEPT !.docs = IF failed THEN {id} ELSE {}], id)
         settled == IF ~entry.found THEN FulfilledNull
                    ELSE IF ~HasText(entry.value) THEN Rejected
                    ELSE Fulfilled(Summary(entry.value))
     IN listing' = [listing EXCEPT !.slots[i] = settled,
                                   !.order = Append(@, i),
                                   !.failed = IF failed THEN @ \cup {id} ELSE @]
  /\ UNCHANGED <<resolveVars, retrievalVars, dialogVars, webhookVars,
                 workerVars, repositoryVars, uploadVars,
                 messages, pressed>>

\* Promise.all settles: it rejects with the first rejection, and the catch
\* returns []; it resolves once every callback has
Join ==
  /\ listing.phase = "fetching"
  /\ \/ /\ \E i \in Slots : listing.slots[i] = Rejected
        /\ listing' = [listing EXCEPT !.phase = "returned", !.entries = <<>>]
     \/ /\ \A i \in Slots : listing.slots[i] \notin {Pending, Rejected}
        /\ listing' = [listing EXCEPT
                         !.phase = "returned",
                         !.entries = JoinedEntries(listing.slots, listing.order)]
  /\ UNCHANGED <<resolveVars, retrievalVars, dialogVars, webhookVars,
                 workerVars, repositoryVars, uploadVars,
                 messages, pressed>>

NextListing ==
  \/ \E department \in ListedDepartments, failed \in BOOLEAN :
        StartListing(department, failed)
  \/ \E i \in 1..Len(DocIdOrder), failed \in BOOLEAN : Settle(i, failed)
  \/ Join

SpecListing == InitListing /\ [][NextListing]_vars

\* the position of the stored key of an entry in the enumeration
KeyPosition(entry) ==
  CHOOSE i \in 1..Len(DocIdOrder) : DocIdOrder[i] = entry.id

AllSettled == \A i \in Slots : listing.slots[i] # Pending

\* C21: the entries of a listing follow the order of the ids the key
\* enumeration returned and are the entries of the documents fetched,
\* whatever the order in which the fetches completed.
C21_EnumerationOrder ==
  (listing.phase = "returned" /\ AllSettled) =>
     /\ \A h, k \in 1..Len(listing.entries) :
           h < k => KeyPosition(listing.entries[h]) < KeyPosition(listing.entries[k])
     /\ listing.entries =
           getDepartmentEntries(kv, [index |-> FALSE, list |-> ~listing.listed,
                                     docs |-> listing.failed],
                                listing.department).value

C21_Witness ==
  /\ listing.phase = "returned"
  /\ AllSettled
  /\ Len(listing.entries) = 2
  /\ listing.order = <<2, 1>>
  /\ listing.entries[1].id = DocX
  /\ listing.entries[2].id = DocY

----------------------------------------------------------------------------
(* Resolution: invariance under normalization *)

\* keys and queries that differ in letter case and outer white space
CasedKeys == {<<"a">>, <<"A">>, <<"a", "B">>, <<"A", "b">>, <<"1">>}
CasedValues == {DocX, MarkerA, MarkerB}
CasedQueries ==
  {<<"a">>, <<"A">>, <<" ", "a", " ">>, <<"a", "b">>, <<"A", "B", NL>>,
   <<"1", "A">>, <<"1", " ", "a">>}

InitNormalize ==
  /\ keywordIndex \in Indexes(CasedKeys, CasedValues, MaxEntries)
  /\ query = <<>>
  /\ knowledgeId = NotCalled
  /\ kv = NoStore
  /\ response = [kind |-> "not called"]
  /\ calls = <<>>
  /\ NoDialog
  /\ NoWebhook
  /\ NoWorker
  /\ NoLookups
  /\ NoUpload
  /\ NoListing

NextNormalize == \E q \in CasedQueries : Resolve(q)

SpecNormalize == InitNormalize /\ [][NextNormalize]_vars

\* letter case and outer white space, told apart without the conversions
\* of findMatchingEntryId
Inked(s) == {i \in 1..Len(s) : s[i] \notin {" ", NL}}

Core(s) ==
  IF Inked(s) = {} THEN <<>>
  ELSE SubSeq(s, CHOOSE i \in Inked(s) : \A j \in Inked(s) : i <= j,
                 CHOOSE i \in Inked(s) : \A j \in Inked(s) : i >= j)

\* the queries that differ from q only in letter case and in leading or
\* trailing white space
SameQuery(q) ==
  {p \in CasedQueries : toUpperCase(Core(p)) = toUpperCase(Core(q))}

\* the spellings of key k that differ from it only in letter case
Recased(k) == {s \in CasedKeys : toUpperCase(s) = toUpperCase(k)}

\* the indexes that differ from ix only in the letter case of their keys
RECURSIVE RecasedEntries(_)
RecasedEntries(ix) ==
  IF ix = <<>> THEN {<<>>}
  ELSE {<<[key |-> k, value |-> Head(ix).value]>> \o rest :
          k \in Recased(Head(ix).key), rest \in RecasedEntries(Tail(ix))}

RecasedIndexes(ix) ==
  {r \in RecasedEntries(ix) : \A i, j \in 1..Len(r) : i # j => r[i].key # r[j].key}

\* C22: the result is the same for every query that differs from the query
\* only in letter case and outer white space, and for every index that
\* differs from the index only in the letter case of its keys.
C22_NormalizationInvariant ==
  Called =>
     /\ \A p \in SameQuery(query) :
           findMatchingEntryId(p, keywordIndex) = knowledgeId
     /\ \A ix \in RecasedIndexes(keywordIndex) :
           findMatchingEntryId(query, ix) = knowledgeId

C22_Witness ==
  /\ Called
  /\ knowledgeId \notin {Null, TypeError}
  /\ query # normalizedQuery
  /\ Cardinality(SameQuery(query)) > 2
  /\ \E i \in 1..Len(keywordIndex) :
        /\ knowledgeId = keywordIndex[i].value
        /\ keywordIndex[i].key # toLowerCase(keywordIndex[i].key)
  /\ Cardinality(RecasedIndexes(keywordIndex)) > 1

----------------------------------------------------------------------------
(* Webhook: requests that arrive one after another, each with one text     *)
(* event of the same user; the handler of a request has finished when the  *)
(* next request arrives                                                    *)

InitSequential ==
  /\ kv \in WebhookStores
  /\ NoWebhook
  /\ NoWorker
  /\ keywordIndex = <<>>
  /\ query = <<>>
  /\ knowledgeId = NotCalled
  /\ response = [kind |-> "not called"]
  /\ calls = <<>>
  /\ NoDialog
  /\ NoLookups
  /\ NoUpload
  /\ NoListing

\* a request with one text event arrives once the last one is answered
Deliver(text) ==
  /\ Len(events) < MaxRequests
  /\ events # <<>> => httpResponse.status # 0
  /\ events' = Append(events, [type |-> "message", message |-> "text",
                               text |-> text, userId |-> "U1"])
  /\ pc' = Append(pc, "pending")
  /\ replies' = Append(replies, <<>>)
  /\ retrieved' = Append(retrieved, NotRetrieved)
  /\ httpResponse' = [status |-> 0]
  /\ UNCHANGED <<userContexts, appended>>

\* handleWebhook answers the request of the last event: 200 when its handler
\* returned, and 500 from the route when it threw
Answer ==
  /\ events # <<>>
  /\ httpResponse.status = 0
  /\ pc[Len(events)] \in {"done", "rejected"}
  /\ httpResponse' = [status |-> IF pc[Len(events)] = "done" THEN 200 ELSE 500]
  /\ UNCHANGED <<events, pc, replies, retrieved, userContexts, appended>>

NextSequential ==
  /\ UNCHANGED <<resolveVars, kv, response, calls, clock, cleared, config,
                 request, repositoryVars, uploadVars, listingVars>>
  /\ \/ \E text \in WebhookTexts : Deliver(text)
     \/ \E i \in Indices : Dispatch(i)
     \/ \E i \in Indices, faults \in SingleFaults : Retrieve(i, faults)
     \/ \E i \in Indices : ReplySucceeds(i)
     \/ \E i \in Indices : ReplyFails(i)
     \/ \E i \in Indices : ApologyFails(i)
     \/ \E i \in Indices, outcome \in {"ok", "failed"} : Rethrow(i, outcome)
     \/ Answer

SpecSequential == InitSequential /\ [][NextSequential]_vars

\* a replyMessage call of event i threw
RaisedIn(i) == \E k \in DOMAIN replies[i] : replies[i][k].outcome = "failed"

\* where in what was recorded for the user the entries of event i stand
PositionsOf(i, role) ==
  {p \in 1..Len(appended["U1"]) :
     appended["U1"][p].role = role /\ EventOf(appended["U1"][p]) = i}

\* C23: text events handled one after another without raising each add one
\* user entry, there before retrieval starts, and right after it one bot
\* entry, there once the reply is sent: the history alternates.
C23_Alternation ==
  (\A i \in Indices : ~RaisedIn(i)) =>
     /\ \A i \in Indices :
           /\ pc[i] # "pending" => Cardinality(PositionsOf(i, "user")) = 1
           /\ pc[i] \in {"pending", "retrieving"} => PositionsOf(i, "bot") = {}
           /\ replies[i] # <<>> =>
                 /\ Cardinality(PositionsOf(i, "bot")) = 1
                 /\ \A p \in PositionsOf(i, "user") : p + 1 \in PositionsOf(i, "bot")
     /\ \A p \in 1..Len(appended["U1"]) :
           appended["U1"][p].role = IF p % 2 = 1 THEN "user" ELSE "bot"
     /\ userContexts["U1"].exists =>
           userContexts["U1"].history =
              LastOf(appended["U1"],
                     Minimum2(Len(appended["U1"]), MAX_DIALOG_HISTORY))

C23_Witness ==
  /\ Len(events) = 2
  /\ \A i \in Indices : pc[i] = "done" /\ ~RaisedIn(i)
  /\ retrieved[1].kind = "null"
  /\ retrieved[2].kind = "listing"
  /\ Len(userContexts["U1"].history) = 4

----------------------------------------------------------------------------
(* Webhook: handleWebhook from the arrival of the request, behind the      *)
(* route POST /webhook                                                     *)

\* a body other than the one the request carries
OtherBody(body) == IF body = Unparseable THEN NoEventsField ELSE Unparseable

Bodies ==
  {Payload(es) :
     es \in UNION {[1..n -> {e \in InboundEvents : e.userId = "U1"}] :
                     n \in 0..MaxEvents}}
  \cup {Unparseable, NoEventsField}

Signatures(body) ==
  {NoHeader, EmptyHeader} \cup
  {Hmac(secret, over) : secret \in Secrets, over \in {body, OtherBody(body)}}

InitSigned ==
  /\ kv \in WebhookStores
  /\ request \in UNION {[state : {"arrived"},
                         channelSecret : {ChannelSecret, Unset},
                         signature : Signatures(body),
                         body : {body}] : body \in Bodies}
  /\ events = <<>>
  /\ pc = <<>>
  /\ replies = <<>>
  /\ retrieved = <<>>
  /\ NoWorker
  /\ keywordIndex = <<>>
  /\ query = <<>>
  /\ knowledgeId = NotCalled
  /\ response = [kind |-> "not called"]
  /\ calls = <<>>
  /\ NoDialog
  /\ NoLookups
  /\ NoUpload
  /\ NoListing

Refuse(status) ==
  /\ request' = [request EXCEPT !.state = "refused"]
  /\ httpResponse' = [status |-> status]
  /\ UNCHANGED <<events, pc, replies, retrieved>>

\* handleWebhook up to events.map: the header, the signature, the parsing;
\* JSON without an events array makes events.map throw, and the route
\* answers 500
Receive ==
  /\ request.state = "arrived"
  /\ IF request.signature \in {NoHeader, EmptyHeader}
     THEN Refuse(403)
     ELSE IF ~validateSignature(request.body, request.signature)
     THEN Refuse(403)
     ELSE IF request.body.kind = "unparseable"
     THEN Refuse(400)
     ELSE IF request.body.kind = "no events"
     THEN Refuse(500)
     ELSE /\ events' = request.body.events
          /\ pc' = [i \in 1..Len(request.body.events) |-> "pending"]
          /\ replies' = [i \in 1..Len(request.body.events) |-> <<>>]
          /\ retrieved' = [i \in 1..Len(request.body.events) |-> NotRetrieved]
          /\ request' = [request EXCEPT !.state = "handling"]
          /\ UNCHANGED httpResponse
  /\ UNCHANGED <<resolveVars, retrievalVars, dialogVars, config,
                 repositoryVars, uploadVars, listingVars>>

NextSigned == Receive \/ NextWebhook

SpecSigned == InitSigned /\ [][NextSigned]_vars

\* the header of the request is the digest of its body under the secret
Validates ==
  /\ request.channelSecret = ChannelSecret
  /\ request.signature.header = "digest"
  /\ request.signature.key = ChannelSecret
  /\ request.signature.over = request.body

NothingHandled ==
  /\ events = <<>>
  /\ pc = <<>>
  /\ replies = <<>>
  /\ \A u \in Users : userContexts[u] = NoContext /\ appended[u] = <<>>

----------------------------------------------------------------------------
(* Webhook: the replies of one event *)

\* the replyMessage calls of event i that returned
SucceededReplies(i) ==
  {k \in DOMAIN replies[i] : replies[i][k].outcome = "ok"}

\* C25: of the replyMessage calls made for the reply token of an event at
\* most one succeeds, and none is made after one that succeeded.
C25_OneSuccessfulReply ==
  \A i \in Indices :
     /\ Cardinality(SucceededReplies(i)) <= 1
     /\ \A k \in SucceededReplies(i) : k = Len(replies[i])

C25_Witness ==
  \E i \in Indices :
     /\ events[i].message = "text"
     /\ pc[i] = "rejected"
     /\ Len(replies[i]) = 3
     /\ replies[i][1].outcome = "failed"
     /\ replies[i][2].kind = "apology"
     /\ replies[i][2].outcome = "failed"
     /\ replies[i][3].kind = "last resort"
     /\ replies[i][3].outcome = "ok"

----------------------------------------------------------------------------
(* Listing messages: generateDepartmentListMessages turns a department     *)
(* listing into a title text and button templates                          *)

GroupSize == 4
LabelLimit == 20
LabelKept == 17

\* the texts of the templates, each one symbol
EntriesNow == <<" entries:">>
NoEntriesOf == <<" has no entries">>
EntriesGroup == <<" entries ">>
EntriesAlt == <<" entries">>
ClickBelow == <<"click a button below">>

\* const departmentNames = { code: name, ... }: one of the codes
departmentNames ==
  <<[key |-> <<"a">>, value |-> <<"A", " ", "w", "a", "r", "d">>]>>

DigitChars == <<"0", "1", "2", "3", "4", "5", "6", "7", "8", "9">>

\* the decimal digits a number has in a template string
RECURSIVE Decimal(_)
Decimal(n) ==
  IF n < 10 THEN <<DigitChars[n + 1]>>
  ELSE Decimal(n \div 10) \o <<DigitChars[(n % 10) + 1]>>

createTextMessage(text) == [type |-> "text", text |-> text]

createMessageAction(label, text) ==
  [type |-> "message", label |-> label, text |-> text]

\* thumbnailImageUrl is not passed and stays undefined
createButtonMessage(altText, title, text, actions) ==
  [type |-> "template", altText |-> altText,
   template |-> [type |-> "buttons", title |-> title, text |-> text,
                 actions |-> actions]]

\* entry.title.length > 20 ? entry.title.substring(0, 17) + '...' : entry.title
ButtonLabel(title) ==
  IF Len(title) > LabelLimit THEN SubSeq(title, 1, LabelKept) \o Ellipsis
  ELSE title

\* mutant: a last group of fewer than four entries is left out
RECURSIVE Slices_full(_)
Slices_full(entries) ==
  IF Len(entries) < GroupSize THEN <<>>
  ELSE <<SubSeq(entries, 1, GroupSize)>>
          \o Slices_full(SubSeq(entries, GroupSize + 1, Len(entries)))

\* for (i = 0; i < entries.length; i += 4) push(entries.slice(i, i + 4))
RECURSIVE Slices(_)
Slices(entries) ==
  IF entries = <<>> THEN <<>>
  ELSE <<SubSeq(entries, 1, Minimum2(GroupSize, Len(entries)))>>
          \o Slices(SubSeq(entries, GroupSize + 1, Len(entries)))

generateDepartmentListMessages(listed) ==
  LET department == listed.department
      entries == listed.entries
      departmentName ==
        IF Property(departmentNames, department) # Null
        THEN Property(departmentNames, department)
        ELSE toUpperCase(department)
      titleMessage == createTextMessage(departmentName \o EntriesNow)
      entriesGroups == Slices(entries)
      Actions(group) ==
        [k \in 1..Len(group) |->
           createMessageAction(ButtonLabel(group[k].title), group[k].title)]
      ButtonMessage(g) ==
        createButtonMessage(departmentName \o EntriesAlt,
                            departmentName \o EntriesGroup \o Decimal(g),
                            ClickBelow, Actions(entriesGroups[g]))
  IN IF Len(entries) = 0
     THEN <<titleMessage, createTextMessage(departmentName \o NoEntriesOf)>>
     ELSE <<titleMessage>> \o
          [g \in 1..Len(entriesGroups) |-> ButtonMessage(g)]

MaxListed == 9

\* titles shorter than the limit of a label, as long, and longer
TitleLengths == <<2, LabelLimit, LabelLimit + 1>>

\* the length of the i-th title: all alike, or in turn
TitleLength(pattern, i) ==
  IF pattern <= Len(TitleLengths) THEN TitleLengths[pattern]
  ELSE TitleLengths[((i + pattern) % Len(TitleLengths)) + 1]

\* the title of the i-th entry, of the given length, ending in its number
TitleOf(i, length) ==
  [k \in 1..(length - Len(Decimal(i))) |-> "t"] \o Decimal(i)

ListedEntries ==
  {[i \in 1..n |-> [id |-> <<"a", "-">> \o Decimal(i),
                    title |-> TitleOf(i, TitleLength(pattern, i)),
                    description |-> <<"d">>]] :
     n \in 0..MaxListed, pattern \in 1..(2 * Len(TitleLengths))}

InitMessages ==
  /\ response \in {Listing(department, entries) :
                     department \in {<<"a">>, <<"x">>},
                     entries \in ListedEntries}
  /\ listing = [phase |-> "idle"]
  /\ messages = <<>>
  /\ pressed = NotPressed
  /\ keywordIndex = <<>>
  /\ query = <<>>
  /\ knowledgeId = NotCalled
  /\ kv = NoStore
  /\ calls = <<>>
  /\ NoDialog
  /\ NoWebhook
  /\ NoWorker
  /\ NoLookups
  /\ NoUpload

\* generateReplyMessages(response) for a department listing
GenerateMessages ==
  /\ messages = <<>>
  /\ response.kind = "listing"
  /\ messages' = generateDepartmentListMessages(response)
  /\ UNCHANGED <<resolveVars, retrievalVars, dialogVars, webhookVars,
                 workerVars, repositoryVars, uploadVars, listing, pressed>>

NextMessages == GenerateMessages

SpecMessages == InitMessages /\ [][NextMessages]_vars

Generated == messages # <<>>

\* the texts the buttons of the messages send, in the order of the messages
ButtonTexts ==
  Flatten([g \in 1..(Len(messages) - 1) |->
             [k \in 1..Len(messages[g + 1].template.actions) |->
                messages[g + 1].template.actions[k].text]])

\* C26: a listing of n >= 1 entries gives 1 + ceil(n/4) messages, a title
\* text and button templates of at most 4 actions in which every entry is
\* one action, in listing order; a listing of no entries gives the title
\* text and one text saying so.
C26_TitleAndTemplates ==
  Generated =>
     LET n == Len(response.entries)
     IN /\ messages[1].type = "text"
        /\ IF n = 0
           THEN /\ Len(messages) = 2
                /\ messages[2].type = "text"
           ELSE /\ Len(messages) = 1 + ((n + GroupSize - 1) \div GroupSize)
                /\ \A g \in 2..Len(messages) :
                      /\ messages[g].type = "template"
                      /\ messages[g].template.type = "buttons"
                      /\ Len(messages[g].template.actions) \in 1..GroupSize
                /\ ButtonTexts = [i \in 1..n |-> response.entries[i].title]

C26_Witness ==
  /\ Generated
  /\ Len(response.entries) = 6
  /\ Len(messages) = 3
  /\ Len(messages[3].template.actions) = 2
  /\ messages[3].template.actions[2].label # messages[3].template.actions[2].text

----------------------------------------------------------------------------
(* Listing buttons: handleText shows the listing of a department, the user *)
(* presses one of its buttons, and LINE sends the text of the button as a  *)
(* new text message                                                        *)

\* titles that are a keyword, no keyword, the department key, and a text
\* with two keywords in it
ButtonTitles == {<<"k">>, <<"t">>, <<"a">>, <<"k", "t">>}

Titled(id, title) ==
  [id |-> id, text |-> <<"#", " ">> \o title \o <<NL, NL, "d">>]

\* the department key first, then keywords of the two documents
ButtonIndexes ==
  {<<[key |-> <<"a">>, value |-> MarkerA]>> \o ix :
     ix \in Indexes({<<"k">>, <<"t">>}, {DocX, DocY}, MaxStored)}

InitButtons ==
  /\ kv \in {[bound |-> TRUE, index |-> Stored(ix),
              docs |-> [id \in DocIds |->
                          IF id = DocX THEN Stored(Titled(DocX, tx))
                          ELSE IF id = DocY THEN Stored(Titled(DocY, ty))
                          ELSE Absent]] :
               ix \in ButtonIndexes, tx \in ButtonTitles, ty \in ButtonTitles}
  /\ listing = [phase |-> "idle"]
  /\ messages = <<>>
  /\ pressed = NotPressed
  /\ keywordIndex = <<>>
  /\ query = <<>>
  /\ knowledgeId = NotCalled
  /\ response = [kind |-> "not called"]
  /\ calls = <<>>
  /\ NoDialog
  /\ NoWebhook
  /\ NoWorker
  /\ NoLookups
  /\ NoUpload

\* handleText for the text q: getResponse, then generateReplyMessages
ShowListing(q) ==
  /\ listing.phase = "idle"
  /\ \E r \in {getResponse(kv, NoFaults, q)} :
        /\ r.result.kind = "listing"
        /\ response' = r.result
        /\ knowledgeId' = r.id
        /\ calls' = r.calls
        /\ listing' = [phase |-> "shown", entries |-> r.result.entries]
        /\ messages' = generateDepartmentListMessages(r.result)
  /\ query' = q
  /\ UNCHANGED <<keywordIndex, kv, dialogVars, webhookVars, workerVars,
                 repositoryVars, uploadVars, pressed>>

\* the user presses action k of message g: its text arrives as a new text
\* message and handleText calls getResponse with it
Press(g, k) ==
  /\ listing.phase = "shown"
  /\ pressed = NotPressed
  /\ g \in 2..Len(messages)
  /\ messages[g].type = "template"
  /\ k \in 1..Len(messages[g].template.actions)
  /\ pressed' = [group |-> g, action |-> k]
  /\ query' = messages[g].template.actions[k].text
  /\ \E r \in {getResponse(kv, NoFaults, query')} :
        /\ response' = r.result
        /\ knowledgeId' = r.id
        /\ calls' = r.calls
  /\ UNCHANGED <<keywordIndex, kv, dialogVars, webhookVars, workerVars,
                 repositoryVars, uploadVars, listing, messages>>

NextButtons ==
  \/ ShowListing(<<"a">>)
  \/ \E g \in 2..3, k \in 1..GroupSize : Press(g, k)

SpecButtons == InitButtons /\ [][NextButtons]_vars

\* the entry of the listing behind the button pressed
PressedEntry ==
  listing.entries[GroupSize * (pressed.group - 2) + pressed.action]

\* C27 (as stated): the text a button of a listing sends, taken as a new
\* query against the same index and store, makes getResponse return the
\* document of the entry of that button.
C27_ButtonLeadsToDocument ==
  pressed # NotPressed =>
     response = Document(StoredDoc(kv, PressedEntry.id).value)

----------------------------------------------------------------------------
(* Worker: /search against findMatchingEntryId *)

\* /search was answered, and its matching ran on the stored index
SearchRan ==
  /\ httpResponse.status # 0
  /\ httpResponse.path = "/search"
  /\ kv.index.state = "stored"
  /\ Len(calls) = 1
  /\ ~calls[1].failed

\* the entry whose target findMatchingEntryId returns for the query: the
\* first department key equal to it, else the first keyword it contains
HitEntry ==
  LET es == ObjectEntries(kv.index.value)
      nq == trim(toLowerCase(query))
      departmentHits == {i \in 1..Len(es) : /\ isDepartmentMarker(es[i].value)
                                            /\ toLowerCase(es[i].key) = nq}
      keywordHits == {i \in 1..Len(es) : /\ ~isDepartmentMarker(es[i].value)
                                         /\ includes(nq, toLowerCase(es[i].key))}
  IN IF departmentHits # {} THEN es[Minimum(departmentHits)]
     ELSE es[Minimum(keywordHits)]

Resolves ==
  findMatchingEntryId(query, kv.index.value) \notin {Null, TypeError}

\* the answer lists the key of the hit where its target belongs
ListsHit ==
  /\ httpResponse.status = 200
  /\ IF isDepartmentMarker(HitEntry.value)
     THEN \E i \in 1..Len(httpResponse.departments) :
             httpResponse.departments[i].key = HitEntry.key
     ELSE \E i \in 1..Len(httpResponse.matches) :
             httpResponse.matches[i].key = HitEntry.key

AllStrings ==
  \A i \in 1..Len(kv.index.value) : IsString(kv.index.value[i].value)

====
